---- MODULE Spec2Model ----
(***************************************************************************)
(* Hybrid retrieval pipeline of unsw_rag: BM25 + vector search, RRF        *)
(* fusion, cross-encoder reranking with metadata boosts, citations.        *)
(*                                                                         *)
(* A search result ("doc") is a Python dict; it is modelled as a TLA+      *)
(* function from key names to values, so that "key in doc" is              *)
(* key \in DOMAIN doc and doc[key] = v is SetKey(doc, key, v).  Both       *)
(* searchers read the columns chunk_type, content, chunk_metadata,         *)
(* staff_profile_url and publication_id from the same chunks row, so these *)
(* are functions of chunk_id (ChunkType, Metadata below) and are not       *)
(* repeated inside every doc.                                              *)
(*                                                                         *)
(* Scores are exact: an RRF score is a fraction <<num, den>>, a cosine     *)
(* similarity is an integer number of hundredths, a rerank/final score an  *)
(* integer number of 1e-7 units.                                           *)
(***************************************************************************)
EXTENDS Integers, Sequences, FiniteSets, TLC

VARIABLES
    pc,                 \* position of the call being modelled
    bm25_results,       \* hybrid_search.py: bm25_results / results_lists[0]
    vector_results,     \* hybrid_search.py: vector_results / results_lists[1]
    fused_results,      \* fusion.py: the list reciprocal_rank_fusion returns
    candidate_results,  \* hybrid_search.py: candidate_results; reranker.py: documents
    top_k,              \* the caller's top_k
    boost_fields,       \* reranker.py: the keys of boost_fields ({} when None or empty)
    rerank_scores,      \* what self.model.predict returns, per chunk_id
    scorer_up,          \* whether self.model.predict answers during this query
    final_results,      \* what rerank_with_metadata returns / hybrid_search.py: final_results
    query_vec,          \* the embedding the provider returns for the query
    limit,              \* vector_search.py: limit
    chunk_types,        \* vector_search.py: chunk_types ({} when None or empty)
    similarity_threshold, \* vector_search.py: similarity_threshold, in hundredths
    row_order,          \* order in which the database yields rows of equal rank
    ann_status,         \* state of the pgvector column / HNSW index
    embedder,           \* state of the embedding provider
    embed_calls,        \* calls of embedding_generator.generate_embeddings so far
    session_tx,         \* the SQLAlchemy session's transaction: "clean" or "aborted"
    fallback_entered,   \* whether _search_with_numpy was entered by search
    scanned,            \* whether the full scan of stored embeddings was executed
    numpy_results,      \* what _search_with_numpy returns when called directly
    use_reranker_arg,   \* HybridSearchEngine.__init__: the use_reranker argument
    reranker_built,     \* whether self.reranker was assigned (Reranker() did not raise)
    use_reranker,       \* self.use_reranker
    citations,          \* formatted_response["citations"]
    response,           \* the dict search returns (<<>> before it returns)
    failed_at,          \* the stage whose exception left search ("none" otherwise)
    query,              \* BM25Searcher.search: the query text, a sequence of characters
    tsquery,            \* the terms _build_tsquery keeps, joined by " & "
    text_index,         \* "built", or "missing" before setup_full_text_search has run
    lexical_hits,       \* rows the text index matches for the query, best first
    requests,           \* search calls in progress on one engine: request id -> locals
    citation_style,     \* citation.py: citation_style / style
    pub_authors,        \* citation["authors"]: the publication's authors, by position
    formatted,          \* citation["formatted"] of each formatted result (None for persons)
    entry_point,        \* the method of HybridSearchEngine the caller called
    bm25_weight,        \* fusion.py weighted_fusion: bm25_weight, in tenths
    vector_weight,      \* fusion.py weighted_fusion: vector_weight, in tenths
    normalize,          \* fusion.py weighted_fusion: normalize
    weighted_results,   \* the list weighted_fusion returns
    texts,              \* step4_generate_embeddings.py: the texts of one batch
    retries,            \* _generate_openai: retries
    api_calls,          \* calls of self.client.embeddings.create so far
    api_errors,         \* the errors self.client.embeddings.create raised, in order
    embeddings,         \* what _generate_openai returns (None before it returns)
    outcome             \* "none" while running, then "returned" or "raised"

fusion_vars == <<bm25_results, vector_results, fused_results>>
rerank_vars == <<candidate_results, top_k, boost_fields, rerank_scores, scorer_up,
                 final_results>>
vector_args == <<query_vec, limit, chunk_types, similarity_threshold, row_order,
                 ann_status, embedder>>
vector_vars == <<vector_args, embed_calls, session_tx, fallback_entered, scanned,
                 numpy_results>>
engine_vars == <<use_reranker_arg, reranker_built, use_reranker, citations, response>>
lexical_vars == <<query, tsquery, text_index, lexical_hits>>
citation_vars == <<citation_style, pub_authors, formatted>>
weighted_vars == <<bm25_weight, vector_weight, normalize, weighted_results>>
retry_vars == <<texts, retries, api_calls, api_errors, embeddings>>
more_vars == <<entry_point, weighted_vars, retry_vars>>
aux_vars == <<lexical_vars, requests, citation_vars, more_vars>>
vars == <<pc, fusion_vars, rerank_vars, vector_vars, engine_vars, failed_at, aux_vars,
          outcome>>

----------------------------------------------------------------------------
(* Bounds of the model *)

\* chunk ids of the small corpus are 1..NumChunks
NumChunks == 3
\* longest result list drawn from the small corpus
MaxLen == 3
\* the reranker is handed documents among chunks 1..NumDocs, at most MaxDocs
NumDocs == 4
MaxDocs == 3
\* largest top_k a caller of the small model asks for
MaxTopK == 2
\* the embeddings table holds the vectors of chunks 1..NumEmbedded
NumEmbedded == 4
\* largest limit a caller of the vector searcher asks for
MaxLimit == 3
\* size of the large corpus, and the large top_k asked of it
BigCorpus == 100
BigTopK == 90

----------------------------------------------------------------------------
(* Generic helpers: Python dict and list behaviour *)

Min(a, b) == IF a <= b THEN a ELSE b
Max(a, b) == IF a >= b THEN a ELSE b

\* doc[key] = v
SetKey(doc, key, v) == (key :> v) @@ doc

\* doc.get(key, default)
Get(doc, key, default) == IF key \in DOMAIN doc THEN doc[key] ELSE default

\* A value that may be None is a sequence: <<>> is None, <<v>> is the value v
NoneVal == <<>>
Some(v) == <<v>>

\* seq[:n]: the first n elements, or all but the last -n when n is negative
Take(seq, n) ==
    IF n >= 0 THEN SubSeq(seq, 1, Min(Len(seq), n))
    ELSE SubSeq(seq, 1, Max(Len(seq) + n, 0))

Range(seq) == {seq[i] : i \in 1..Len(seq)}

ChunkIds(seq) == [i \in 1..Len(seq) |-> seq[i].chunk_id]

\* list.sort(key=..., reverse=True) and sorted(..., reverse=True): Python's sort
\* is stable, and with reverse=True elements with equal keys keep their
\* original relative order.  Before(x, y) is "key(x) > key(y)".
StableSortDesc(seq, Before(_, _)) ==
    LET n == Len(seq)
        pos == [i \in 1..n |->
                  1 + Cardinality({j \in 1..n :
                        \/ Before(seq[j], seq[i])
                        \/ /\ ~Before(seq[i], seq[j])
                           /\ j < i})]
    IN  [p \in 1..n |-> seq[CHOOSE i \in 1..n : pos[i] = p]]

\* Exact fractions <<num, den>>, den > 0
FracAdd(a, b) == <<a[1] * b[2] + b[1] * a[2], a[2] * b[2]>>
FracLess(a, b) == a[1] * b[2] < b[1] * a[2]
FracEq(a, b) == a[1] * b[2] = b[1] * a[2]

----------------------------------------------------------------------------
(* search/fusion.py: HybridFusion.reciprocal_rank_fusion *)

\* k: int = 60
RRF_K == 60

\* enumerate(results, start=1)
Enumerate(results) ==
    [i \in 1..Len(results) |-> [rank |-> i, doc |-> results[i]]]

\* the two nested for loops visit the docs of every list, list after list
RECURSIVE FlattenRanked(_)
FlattenRanked(results_lists) ==
    IF results_lists = <<>> THEN <<>>
    ELSE Enumerate(Head(results_lists)) \o FlattenRanked(Tail(results_lists))

\* rrf_score = 1.0 / (k + rank)
RRFContributionZeroBased(k, rank) == <<1, k + rank - 1>>
RRFContribution(k, rank) == <<1, k + rank>>

\* rrf_scores[chunk_id] += rrf_score, on a defaultdict(float); `keys` is the
\* dict's insertion order
RRFKeysNoDedup(keys, chunk_id) == Append(keys, chunk_id)
RRFKeys(keys, chunk_id) ==
    IF chunk_id \in Range(keys) THEN keys ELSE Append(keys, chunk_id)

\* if chunk_id not in doc_info: doc_info[chunk_id] = doc
DocInfoUpdate(doc_info, chunk_id, doc) ==
    IF chunk_id \in DOMAIN doc_info THEN doc_info
    ELSE (chunk_id :> doc) @@ doc_info

\* the loops, one (rank, doc) at a time; the dicts are looked at before each
\* step, so that they are evaluated step by step, as the loops build them
RECURSIVE RRFLoop(_, _, _)
RRFLoop(entries, k, acc) ==
    IF Len(acc.keys) >= 0 /\ entries = <<>> THEN acc
    ELSE LET e == Head(entries)
             chunk_id == e.doc.chunk_id
             old == IF chunk_id \in DOMAIN acc.rrf_scores
                    THEN acc.rrf_scores[chunk_id] ELSE <<0, 1>>
         IN  RRFLoop(Tail(entries), k,
                [keys |-> RRFKeys(acc.keys, chunk_id),
                 rrf_scores |-> (chunk_id :> FracAdd(old, RRFContribution(k, e.rank)))
                                    @@ acc.rrf_scores,
                 doc_info |-> DocInfoUpdate(acc.doc_info, chunk_id, e.doc)])

\* the second loop: doc = doc_info[chunk_id].copy(); doc["rrf_score"] = ...;
\* missing bm25_score / vector_score default to 0.0
FusedDoc(doc_info, rrf_scores, chunk_id) ==
    LET d0 == SetKey(doc_info[chunk_id], "rrf_score", rrf_scores[chunk_id])
        d1 == IF "bm25_score" \notin DOMAIN d0 THEN SetKey(d0, "bm25_score", 0) ELSE d0
        d2 == IF "vector_score" \notin DOMAIN d1 THEN SetKey(d1, "vector_score", 0) ELSE d1
    IN  d2

\* fused_results.sort(key=lambda x: x["rrf_score"], reverse=True)
RRFBeforeAscending(x, y) == FracLess(x.rrf_score, y.rrf_score)
RRFBefore(x, y) == FracLess(y.rrf_score, x.rrf_score)

reciprocal_rank_fusion(results_lists, k) ==
    LET acc == RRFLoop(FlattenRanked(results_lists), k,
                       [keys |-> <<>>, rrf_scores |-> <<>>, doc_info |-> <<>>])
        unsorted == [i \in 1..Len(acc.keys) |->
                        FusedDoc(acc.doc_info, acc.rrf_scores, acc.keys[i])]
    IN  StableSortDesc(unsorted, RRFBefore)

----------------------------------------------------------------------------
(* search/fusion.py: HybridFusion.weighted_fusion and _normalize_scores       *)
(* The scores these functions compute with are rationals <<num, den>> in      *)
(* lowest terms with den > 0, so that equal scores are equal values.          *)

RECURSIVE Gcd(_, _)
Gcd(a, b) == IF b = 0 THEN a ELSE Gcd(b, a % b)

Abs(a) == IF a < 0 THEN -a ELSE a

Rational(num, den) ==
    LET sign == IF den < 0 THEN -1 ELSE 1
        g == Gcd(Abs(num), Abs(den))
    IN  <<(sign * num) \div g, (sign * den) \div g>>

RatAdd(a, b) == Rational(a[1] * b[2] + b[1] * a[2], a[2] * b[2])
RatSub(a, b) == Rational(a[1] * b[2] - b[1] * a[2], a[2] * b[2])
RatMul(a, b) == Rational(a[1] * b[1], a[2] * b[2])
RatDiv(a, b) == Rational(a[1] * b[2], a[2] * b[1])
RatLess(a, b) == a[1] * b[2] < b[1] * a[2]

\* a weight given in tenths
Tenths(w) == Rational(w, 10)

\* scores = [doc.get(score_field, 0.0) for doc in results]
FieldScores(results, score_field) ==
    [i \in 1..Len(results) |-> Get(results[i], score_field, <<0, 1>>)]

\* min(scores), max(scores)
MinScore(scores) == CHOOSE m \in Range(scores) : \A x \in Range(scores) : ~RatLess(x, m)
MaxScore(scores) == CHOOSE m \in Range(scores) : \A x \in Range(scores) : ~RatLess(m, x)

\* _normalize_scores: the list it returns.  It is the caller's list, and the
\* scores are written into the caller's dicts: doc[score_field] = ...
normalize_scores(results, score_field) ==
    IF results = <<>> THEN results
    ELSE LET scores == FieldScores(results, score_field)
             min_score == MinScore(scores)
             max_score == MaxScore(scores)
         IN  IF max_score = min_score
             THEN [i \in 1..Len(results) |-> SetKey(results[i], score_field, <<1, 1>>)]
             ELSE [i \in 1..Len(results) |->
                      SetKey(results[i], score_field,
                             RatDiv(RatSub(scores[i], min_score),
                                    RatSub(max_score, min_score)))]

\* the caller's list after weighted_fusion(..., normalize) has returned
InputAfterFusion(results, score_field, norm) ==
    IF norm THEN normalize_scores(results, score_field) ELSE results

\* combined[chunk_id] = ...: a dict keeps the position of a key it already holds
PutCombined(combined, chunk_id, entry) ==
    [keys |-> IF chunk_id \in DOMAIN combined.docs THEN combined.keys
              ELSE Append(combined.keys, chunk_id),
     docs |-> (chunk_id :> entry) @@ combined.docs]

\* for doc in bm25_results: combined[chunk_id] = doc.copy(), with bm25_score,
\* vector_score = 0.0 and weighted_score = bm25_weight * bm25_score
RECURSIVE LexicalLoop(_, _, _)
LexicalLoop(docs, bw, combined) ==
    IF docs = <<>> THEN combined
    ELSE LET doc == Head(docs)
             score == Get(doc, "bm25_score", <<0, 1>>)
             entry == SetKey(SetKey(SetKey(doc, "bm25_score", score),
                                    "vector_score", <<0, 1>>),
                             "weighted_score", RatMul(bw, score))
         IN  LexicalLoop(Tail(docs), bw, PutCombined(combined, doc.chunk_id, entry))

\* combined[chunk_id]["weighted_score"] += vector_weight * vector_score
AddVectorPartUnweighted(entry, vw, vector_score) ==
    SetKey(SetKey(entry, "vector_score", vector_score),
           "weighted_score", RatAdd(entry.weighted_score, vector_score))
AddVectorPart(entry, vw, vector_score) ==
    SetKey(SetKey(entry, "vector_score", vector_score),
           "weighted_score", RatAdd(entry.weighted_score, RatMul(vw, vector_score)))

\* for doc in vector_results: update the entry of a chunk already combined,
\* else a new entry with bm25_score = 0.0
RECURSIVE VectorLoop(_, _, _)
VectorLoop(docs, vw, combined) ==
    IF docs = <<>> THEN combined
    ELSE LET doc == Head(docs)
             vector_score == Get(doc, "vector_score", <<0, 1>>)
             entry == IF doc.chunk_id \in DOMAIN combined.docs
                      THEN AddVectorPart(combined.docs[doc.chunk_id], vw, vector_score)
                      ELSE SetKey(SetKey(SetKey(doc, "bm25_score", <<0, 1>>),
                                         "vector_score", vector_score),
                                  "weighted_score", RatMul(vw, vector_score))
         IN  VectorLoop(Tail(docs), vw, PutCombined(combined, doc.chunk_id, entry))

\* fused_results.sort(key=lambda x: x["weighted_score"], reverse=True)
WeightedBefore(x, y) == RatLess(y.weighted_score, x.weighted_score)

weighted_fusion(bm25, vector, bw, vw, norm) ==
    LET combined == VectorLoop(InputAfterFusion(vector, "vector_score", norm), vw,
                        LexicalLoop(InputAfterFusion(bm25, "bm25_score", norm), bw,
                                    [keys |-> <<>>, docs |-> <<>>]))
    IN  StableSortDesc([i \in 1..Len(combined.keys) |-> combined.docs[combined.keys[i]]],
                       WeightedBefore)

----------------------------------------------------------------------------
(* Inputs: ranked result lists a searcher can return.  chunk_id is the      *)
(* primary key of chunks and of embeddings, so a list holds a chunk at most *)
(* once; both searchers ORDER BY score, so scores do not increase.          *)

Chunks == 1..NumChunks

BM25Scores == {1, 2}
VectorScores == {-50, 0, 60}

InjectiveSeqs(S, n) ==
    UNION {{s \in [1..m -> S] : \A i, j \in 1..m : i # j => s[i] # s[j]} : m \in 0..n}

RankedLists(field, scores, source) ==
    UNION {{[i \in 1..Len(ids) |->
                (field :> sc[i]) @@ [chunk_id |-> ids[i], source |-> source]]
            : sc \in {f \in [1..Len(ids) -> scores] :
                        \A i \in 1..Len(ids) - 1 : f[i] >= f[i + 1]}}
           : ids \in InjectiveSeqs(Chunks, MaxLen)}

LexicalLists == RankedLists("bm25_score", BM25Scores, "bm25")
VectorLists == RankedLists("vector_score", VectorScores, "vector_pgvector")

----------------------------------------------------------------------------
(* The chunks table.  Rows are immutable for the retrieval core; the model  *)
(* fixes a corpus whose rows cycle through the kinds of chunk the ingestion *)
(* pipeline writes (pipeline/step2_parse_publications.py): publication      *)
(* chunks whose metadata holds pub_year, citations_count and                *)
(* is_open_access, pub_year being None when the publication has no year,    *)
(* and person chunks whose metadata holds none of them.                     *)

ChunkType(c) ==
    CASE c % 6 = 1 -> "publication_abstract"
      [] c % 6 = 2 -> "person_biography"
      [] c % 6 = 3 -> "publication_title"
      [] c % 6 = 4 -> "publication_keywords"
      [] c % 6 = 5 -> "person_basic"
      [] OTHER     -> "publication_abstract"

Metadata(c) ==
    CASE c % 6 = 1 -> [pub_year |-> Some(2010), citations_count |-> 0, is_open_access |-> FALSE]
      [] c % 6 = 2 -> [person_name |-> c]
      [] c % 6 = 3 -> [pub_year |-> Some(1990), citations_count |-> 1, is_open_access |-> TRUE]
      [] c % 6 = 4 -> [pub_year |-> NoneVal, citations_count |-> 0, is_open_access |-> FALSE]
      [] c % 6 = 5 -> [person_name |-> c]
      [] OTHER     -> [pub_year |-> Some(2030), citations_count |-> 9, is_open_access |-> TRUE]

\* doc.get("metadata", {}): every searcher puts the row's chunk_metadata in the doc
DocMetadata(doc) == Metadata(doc.chunk_id)

----------------------------------------------------------------------------
(* search/reranker.py: Reranker (model_type "local", as the engine builds it) *)
(* Scores are integers in units of 1e-7; boost weights in thousandths.        *)

\* the boost_fields HybridSearchEngine.search passes, {"citations_count": 0.1,
\* "is_open_access": 0.05, "publication_year": 0.05}: its keys and its weights
SearchBoostFields == {"citations_count", "is_open_access", "publication_year"}
BoostWeight == [citations_count |-> 100, is_open_access |-> 50, publication_year |-> 50]

\* math.log1p(citations), in units of 1e-4, for the citation counts of the corpus
Log1pE4(count) ==
    CASE count = 0 -> 0
      [] count = 1 -> 6931
      [] count = 9 -> 23026

\* _rerank_local: doc["rerank_score"] = float(score) for every document (in
\* place), sorted(..., reverse=True), [:top_k]
RerankBefore(x, y) == x.rerank_score > y.rerank_score

WithRerankScores(documents, scores) ==
    [i \in 1..Len(documents) |->
        SetKey(documents[i], "rerank_score", scores[documents[i].chunk_id])]

rerank_local(documents, scores, k) ==
    Take(StableSortDesc(WithRerankScores(documents, scores), RerankBefore), k)

\* rerank: "if not documents: return []" comes before the model is called
ScoringCalledAlways(documents) == TRUE
ScoringCalled(documents) == documents # <<>>

\* rerank: an empty document list returns [] before the model is called
rerank(documents, scores, k) ==
    IF documents = <<>> THEN <<>> ELSE rerank_local(documents, scores, k)

\* year - 2000 raises TypeError when pub_year is None
BoostRaises(metadata, boosts) ==
    /\ "publication_year" \in boosts
    /\ Get(metadata, "pub_year", Some(2000)) = NoneVal

\* boost_score of one document, lines 228-248
CitationBoost(metadata, boosts) ==
    IF "citations_count" \in boosts
    THEN (BoostWeight.citations_count * Log1pE4(Get(metadata, "citations_count", 0))) \div 10
    ELSE 0

OpenAccessBoost(metadata, boosts) ==
    IF "is_open_access" \in boosts /\ Get(metadata, "is_open_access", FALSE)
    THEN BoostWeight.is_open_access * 10000
    ELSE 0

YearBoost(metadata, boosts) ==
    IF "publication_year" \in boosts
    THEN (BoostWeight.publication_year * 10000
            * (Get(metadata, "pub_year", Some(2000))[1] - 2000)) \div 25
    ELSE 0

BoostScore(metadata, boosts) ==
    CitationBoost(metadata, boosts) + OpenAccessBoost(metadata, boosts)
        + YearBoost(metadata, boosts)

\* doc["final_score"] = doc.get("rerank_score", 0) + boost_score
WithFinalScore(doc, boosts) ==
    SetKey(doc, "final_score",
           Get(doc, "rerank_score", 0) + BoostScore(DocMetadata(doc), boosts))

FinalBefore(x, y) == Get(x, "final_score", 0) > Get(y, "final_score", 0)

\* how many documents rerank_with_metadata hands to the boost loop: top_k * 2
RerankPoolNoMargin(k) == k
RerankPool(k) == k * 2

\* reranked.sort(key=final_score, reverse=True)
FinalSortById(seq) ==
    StableSortDesc(seq, LAMBDA x, y :
        \/ FinalBefore(x, y)
        \/ (~FinalBefore(y, x) /\ x.chunk_id < y.chunk_id))
FinalSort(seq) == StableSortDesc(seq, FinalBefore)

\* rerank_with_metadata(query, documents, top_k, boost_fields):
\* [raised |-> whether it raises, value |-> the list it returns]
rerank_with_metadata(documents, scores, up, k, boosts) ==
    IF ScoringCalled(documents) /\ ~up
    THEN [raised |-> TRUE, value |-> <<>>]
    ELSE LET reranked == rerank(documents, scores, RerankPool(k))
         IN  IF boosts = {}
             THEN [raised |-> FALSE, value |-> Take(reranked, k)]
             ELSE IF \E i \in 1..Len(reranked) : BoostRaises(DocMetadata(reranked[i]), boosts)
             THEN [raised |-> TRUE, value |-> <<>>]
             ELSE [raised |-> FALSE,
                   value |-> Take(FinalSort([i \in 1..Len(reranked) |->
                                        WithFinalScore(reranked[i], boosts)]), k)]

\* The documents are scored in place: after the call the caller's list holds the
\* same dicts in the same order, with rerank_score on every one (when the model
\* answered) and final_score on those the boost loop reached.
DocsAfterRerank(documents, scores, up, k, boosts) ==
    IF ~ScoringCalled(documents) \/ ~up THEN documents
    ELSE LET scored == WithRerankScores(documents, scores)
             reranked == rerank(documents, scores, RerankPool(k))
             firstBad == IF boosts = {} THEN Len(reranked) + 1
                         ELSE IF \E i \in 1..Len(reranked) :
                                    BoostRaises(DocMetadata(reranked[i]), boosts)
                         THEN CHOOSE i \in 1..Len(reranked) :
                                /\ BoostRaises(DocMetadata(reranked[i]), boosts)
                                /\ \A j \in 1..(i - 1) :
                                      ~BoostRaises(DocMetadata(reranked[j]), boosts)
                         ELSE Len(reranked) + 1
             reached == IF boosts = {} THEN {}
                        ELSE {reranked[i].chunk_id : i \in 1..(firstBad - 1)}
         IN  [i \in 1..Len(scored) |->
                IF scored[i].chunk_id \in reached
                THEN WithFinalScore(scored[i], boosts) ELSE scored[i]]

RerankIdle ==
    /\ candidate_results = <<>>
    /\ top_k = 0
    /\ boost_fields = {}
    /\ rerank_scores = <<>>
    /\ scorer_up = TRUE
    /\ final_results = <<>>

----------------------------------------------------------------------------
(* search/vector_search.py: VectorSearcher                                    *)
(* Vectors are pairs of integers whose norm is an integer; a cosine           *)
(* similarity is an exact integer number of hundredths.                       *)

\* the embeddings table: one vector per chunk (chunk_id is its primary key);
\* vector and vector_pgvector hold the same vector
Embedding(c) ==
    CASE c % 6 = 1 -> <<3, 4>>
      [] c % 6 = 2 -> <<4, 3>>
      [] c % 6 = 3 -> <<-3, 4>>
      [] c % 6 = 4 -> <<-4, -3>>
      [] c % 6 = 5 -> <<6, 8>>
      [] OTHER     -> <<5, 0>>

Embedded == 1..NumEmbedded

Dot(a, b) == a[1] * b[1] + a[2] * b[2]

\* np.linalg.norm
Norm(a) == CHOOSE r \in 0..(Dot(a, a)) : r * r = Dot(a, a)

\* _fast_cosine_similarity
CosineE2(vec1, vec2) ==
    IF Norm(vec1) = 0 \/ Norm(vec2) = 0 THEN 0
    ELSE (100 * Dot(vec1, vec2)) \div (Norm(vec1) * Norm(vec2))

\* pgvector's <=> operator: cosine distance
CosineDistanceE2(vec1, vec2) == 100 - CosineE2(vec1, vec2)

\* if chunk_types: ... WHERE c.chunk_type IN (...)
TypeMatches(c, types) == types = {} \/ ChunkType(c) \in types

\* rows of chunks JOIN embeddings that pass the type filter, in the order the
\* database yields them
Rows(types, order) ==
    SelectSeq(order, LAMBDA c : TypeMatches(c, types))

VectorBefore(x, y) == x.vector_score > y.vector_score

\* _search_with_numpy, steps 3 and 4: keep similarity >= threshold, sort by
\* vector_score descending, [:limit]
NumpyKeeps(similarity, threshold) == similarity >= threshold

search_with_numpy(q, lim, types, threshold, order) ==
    LET rows == Rows(types, order)
        kept == SelectSeq(rows, LAMBDA c : NumpyKeeps(CosineE2(q, Embedding(c)), threshold))
        candidates == [i \in 1..Len(kept) |->
                         [chunk_id |-> kept[i],
                          vector_score |-> CosineE2(q, Embedding(kept[i])),
                          source |-> "vector"]]
    IN  Take(StableSortDesc(candidates, VectorBefore), lim)

\* search_with_pgvector: the similarity filter is added only
\* "if similarity_threshold > 0"
PgvectorKeeps(similarity, threshold) == threshold > 0 => similarity >= threshold

\* ORDER BY e.vector_pgvector <=> query LIMIT limit; similarity is
\* 1 - (e.vector_pgvector <=> query)
search_with_pgvector(q, lim, types, threshold, order) ==
    LET rows == Rows(types, order)
        kept == SelectSeq(rows, LAMBDA c :
                    PgvectorKeeps(100 - CosineDistanceE2(Embedding(c), q), threshold))
        found == [i \in 1..Len(kept) |->
                    [chunk_id |-> kept[i],
                     vector_score |-> 100 - CosineDistanceE2(Embedding(kept[i]), q),
                     source |-> "vector_pgvector"]]
        ordered == StableSortDesc(found, LAMBDA x, y :
                        100 - x.vector_score < 100 - y.vector_score)
    IN  Take(ordered, lim)

\* failures of the pgvector query that are the vector index's own
IndexFailures == {"index_missing", "index_malformed", "index_runtime_error"}

\* the session after search's "try: self.session.rollback() except: pass"
SessionNotRolledBack(tx) == tx
SessionAfterRollback(tx) == "clean"

MoreIdle ==
    /\ entry_point = "none"
    /\ bm25_weight = 0
    /\ vector_weight = 0
    /\ normalize = FALSE
    /\ weighted_results = <<>>
    /\ texts = <<>>
    /\ retries = 0
    /\ api_calls = 0
    /\ api_errors = <<>>
    /\ embeddings = <<>>

AuxIdle ==
    /\ MoreIdle
    /\ query = <<>>
    /\ tsquery = <<>>
    /\ text_index = "built"
    /\ lexical_hits = <<>>
    /\ requests = <<>>
    /\ citation_style = "apa"
    /\ pub_authors = <<>>
    /\ formatted = <<>>

EngineIdle ==
    /\ use_reranker_arg = FALSE
    /\ reranker_built = FALSE
    /\ use_reranker = FALSE
    /\ citations = <<>>
    /\ response = <<>>
    /\ failed_at = "none"

VectorIdle ==
    /\ query_vec = <<0, 0>>
    /\ limit = 0
    /\ chunk_types = {}
    /\ similarity_threshold = 0
    /\ row_order = <<>>
    /\ ann_status = "ok"
    /\ embedder = "up"
    /\ embed_calls = 0
    /\ session_tx = "clean"
    /\ fallback_entered = FALSE
    /\ scanned = FALSE
    /\ numpy_results = <<>>

----------------------------------------------------------------------------
(* Specification SpecRerank: one call of Reranker.rerank_with_metadata on    *)
(* candidates that arrive in any order.                                      *)

RerankScores == {0, 100000, 200000}

\* a candidate as the fusion stage hands it over (fusion.py lines 56-63)
Candidate(c) ==
    [chunk_id |-> c, source |-> "bm25", bm25_score |-> 1, vector_score |-> 0,
     rrf_score |-> <<1, RRF_K + 1>>]

CandidateLists ==
    {[i \in 1..Len(ids) |-> Candidate(ids[i])] : ids \in InjectiveSeqs(1..NumDocs, MaxDocs)}

FusionIdle ==
    /\ bm25_results = <<>>
    /\ vector_results = <<>>
    /\ fused_results = <<>>

InitRerank ==
    /\ AuxIdle
    /\ pc = "rerank_call"
    /\ FusionIdle
    /\ candidate_results \in CandidateLists
    /\ top_k \in 0..MaxTopK
    /\ boost_fields \in {{}, SearchBoostFields}
    /\ rerank_scores \in [Range(ChunkIds(candidate_results)) -> RerankScores]
    /\ scorer_up \in BOOLEAN
    /\ final_results = <<>>
    /\ VectorIdle
    /\ EngineIdle
    /\ outcome = "none"

RerankCall ==
    /\ UNCHANGED aux_vars
    /\ pc = "rerank_call"
    /\ LET r == rerank_with_metadata(candidate_results, rerank_scores, scorer_up,
                                     top_k, boost_fields)
       IN  /\ final_results' = r.value
           /\ outcome' = IF r.raised THEN "raised" ELSE "returned"
    /\ candidate_results' = DocsAfterRerank(candidate_results, rerank_scores, scorer_up,
                                            top_k, boost_fields)
    /\ pc' = "rerank_done"
    /\ UNCHANGED <<fusion_vars, top_k, boost_fields, rerank_scores, scorer_up, vector_vars,
                   engine_vars, failed_at>>

NextRerank == RerankCall

SpecRerank == InitRerank /\ [][NextRerank]_vars

----------------------------------------------------------------------------
(* Specification SpecVector: one call of VectorSearcher.search               *)

QueryVecs == {<<3, 4>>, <<5, 0>>, <<0, -5>>}
Thresholds == {0, 50}
TypeFilters == {{},
                {"publication_abstract", "publication_title"},
                {"person_biography", "person_basic"}}
RowOrders(S) == {s \in [1..Cardinality(S) -> S] : \A i, j \in 1..Cardinality(S) :
                        i # j => s[i] # s[j]}

\* embedder: "up"; "down" (every call fails); "flaky" (the first call of the
\* query fails, the next succeeds); "none" (embedding_generator is None)
EmbedderStates == {"up", "down", "flaky", "none"}
AnnStates == IndexFailures \cup {"ok", "db_down"}

\* whether the n-th call of generate_embeddings of this query fails
EmbedFails(state, n) == state = "down" \/ (state = "flaky" /\ n = 1)

VectorInputs ==
    /\ query_vec \in QueryVecs
    /\ limit \in 0..MaxLimit
    /\ chunk_types \in TypeFilters
    /\ similarity_threshold \in Thresholds
    /\ row_order \in RowOrders(Embedded)

InitVector ==
    /\ AuxIdle
    /\ pc = "vs_call"
    /\ FusionIdle
    /\ RerankIdle
    /\ VectorInputs
    /\ ann_status \in AnnStates
    /\ embedder \in EmbedderStates
    /\ embed_calls = 0
    /\ session_tx = "clean"
    /\ fallback_entered = FALSE
    /\ scanned = FALSE
    /\ numpy_results = <<>>
    /\ EngineIdle
    /\ outcome = "none"

\* search: try: return self.search_with_pgvector(...).  The call is at callPc;
\* a caught exception leads to fallbackPc, a returned list to donePc with the
\* caller's outcome `returns`.
VSPgvector(callPc, fallbackPc, donePc, returns) ==
    /\ UNCHANGED aux_vars
    /\ pc = callPc
    /\ IF embedder = "none"
       THEN \* None.generate_embeddings: AttributeError, caught by search
            /\ pc' = fallbackPc
            /\ UNCHANGED <<embed_calls, session_tx, vector_results, outcome>>
       ELSE IF EmbedFails(embedder, embed_calls + 1)
       THEN \* the embedding call raises inside the try block
            /\ embed_calls' = embed_calls + 1
            /\ pc' = fallbackPc
            /\ UNCHANGED <<session_tx, vector_results, outcome>>
       ELSE IF ann_status # "ok"
       THEN \* session.execute raises; the transaction is left aborted
            /\ embed_calls' = embed_calls + 1
            /\ session_tx' = "aborted"
            /\ pc' = fallbackPc
            /\ UNCHANGED <<vector_results, outcome>>
       ELSE /\ embed_calls' = embed_calls + 1
            /\ vector_results' = search_with_pgvector(query_vec, limit, chunk_types,
                                                      similarity_threshold, row_order)
            /\ outcome' = returns
            /\ pc' = donePc
            /\ UNCHANGED session_tx
    /\ UNCHANGED <<bm25_results, fused_results, rerank_vars, vector_args,
                   fallback_entered, scanned, numpy_results, engine_vars, failed_at>>

\* search: except Exception: rollback, return self._search_with_numpy(...).
\* An exception of _search_with_numpy leaves search: raisedPc.
VSFallback(fallbackPc, donePc, returns, raisedPc) ==
    /\ UNCHANGED aux_vars
    /\ pc = fallbackPc
    /\ fallback_entered' = TRUE
    /\ session_tx' = SessionAfterRollback(session_tx)
    /\ IF embedder = "none"
       THEN \* raise ValueError("Embedding generator not initialized")
            /\ outcome' = "raised" /\ pc' = raisedPc /\ failed_at' = "vector"
            /\ UNCHANGED <<embed_calls, scanned, vector_results>>
       ELSE IF EmbedFails(embedder, embed_calls + 1)
       THEN /\ embed_calls' = embed_calls + 1
            /\ outcome' = "raised" /\ pc' = raisedPc /\ failed_at' = "vector"
            /\ UNCHANGED <<scanned, vector_results>>
       ELSE IF ann_status = "db_down" \/ session_tx' # "clean"
       THEN \* session.execute raises: no connection, or the transaction is aborted
            /\ embed_calls' = embed_calls + 1
            /\ outcome' = "raised" /\ pc' = raisedPc /\ failed_at' = "vector"
            /\ UNCHANGED <<scanned, vector_results>>
       ELSE /\ embed_calls' = embed_calls + 1
            /\ scanned' = TRUE
            /\ vector_results' = search_with_numpy(query_vec, limit, chunk_types,
                                                   similarity_threshold, row_order)
            /\ outcome' = returns /\ pc' = donePc
            /\ UNCHANGED failed_at
    /\ UNCHANGED <<bm25_results, fused_results, rerank_vars, vector_args, numpy_results,
                   engine_vars>>

NextVector ==
    \/ VSPgvector("vs_call", "vs_fallback", "vs_done", "returned")
    \/ VSFallback("vs_fallback", "vs_done", "returned", "vs_done")

SpecVector == InitVector /\ [][NextVector]_vars

----------------------------------------------------------------------------
(* Specification SpecVectorPaths: search_with_pgvector and _search_with_numpy *)
(* each called once on the same stored embeddings and the same arguments,     *)
(* with the index and the embedding provider working.                         *)

InitVectorPaths ==
    /\ AuxIdle
    /\ pc = "paths_pgvector"
    /\ FusionIdle
    /\ RerankIdle
    /\ VectorInputs
    /\ ann_status = "ok"
    /\ embedder = "up"
    /\ embed_calls = 0
    /\ session_tx = "clean"
    /\ fallback_entered = FALSE
    /\ scanned = FALSE
    /\ numpy_results = <<>>
    /\ EngineIdle
    /\ outcome = "none"

PathsPgvector ==
    /\ UNCHANGED aux_vars
    /\ pc = "paths_pgvector"
    /\ embed_calls' = embed_calls + 1
    /\ vector_results' = search_with_pgvector(query_vec, limit, chunk_types,
                                              similarity_threshold, row_order)
    /\ pc' = "paths_numpy"
    /\ UNCHANGED <<bm25_results, fused_results, rerank_vars, vector_args, session_tx,
                   fallback_entered, scanned, numpy_results, engine_vars, failed_at,
                   outcome>>

PathsNumpy ==
    /\ UNCHANGED aux_vars
    /\ pc = "paths_numpy"
    /\ embed_calls' = embed_calls + 1
    /\ scanned' = TRUE
    /\ numpy_results' = search_with_numpy(query_vec, limit, chunk_types,
                                          similarity_threshold, row_order)
    /\ outcome' = "returned"
    /\ pc' = "paths_done"
    /\ UNCHANGED <<bm25_results, vector_results, fused_results, rerank_vars, vector_args,
                   session_tx, fallback_entered, engine_vars, failed_at>>

NextVectorPaths == PathsPgvector \/ PathsNumpy

SpecVectorPaths == InitVectorPaths /\ [][NextVectorPaths]_vars

----------------------------------------------------------------------------
(* Specification SpecFusion: one call of reciprocal_rank_fusion *)

InitFusion ==
    /\ AuxIdle
    /\ pc = "rrf_call"
    /\ bm25_results \in LexicalLists
    /\ vector_results \in VectorLists
    /\ fused_results = <<>>
    /\ RerankIdle
    /\ VectorIdle
    /\ EngineIdle
    /\ outcome = "none"

RRFCall ==
    /\ UNCHANGED aux_vars
    /\ pc = "rrf_call"
    /\ fused_results' = reciprocal_rank_fusion(<<bm25_results, vector_results>>, RRF_K)
    /\ pc' = "rrf_done"
    /\ outcome' = "returned"
    /\ UNCHANGED <<bm25_results, vector_results, rerank_vars, vector_vars, engine_vars,
                   failed_at>>

NextFusion == RRFCall

SpecFusion == InitFusion /\ [][NextFusion]_vars

----------------------------------------------------------------------------
(* Specification SpecWeighted: one call of weighted_fusion on the lists the  *)
(* two searchers returned, whose scores are floats: a bm25_score in units, a *)
(* vector_score in hundredths.  Fusion does not look at what a chunk_id is,   *)
(* so the lexical list is taken with ascending chunk_ids and the vector list *)
(* in every order.                                                           *)

AscendingIds(results) ==
    \A i \in 1..(Len(results) - 1) : results[i].chunk_id < results[i + 1].chunk_id

FloatScores(results, score_field, unit) ==
    [i \in 1..Len(results) |->
        SetKey(results[i], score_field, Rational(results[i][score_field], unit))]

\* the calls explored: the default weights 0.5 / 0.5, with and without
\* normalisation, and weights 0.7 / 0.3
WeightedCalls ==
    {[bw |-> 5, vw |-> 5, norm |-> TRUE],
     [bw |-> 7, vw |-> 3, norm |-> TRUE],
     [bw |-> 5, vw |-> 5, norm |-> FALSE]}

InitWeighted ==
    /\ query = <<>>
    /\ tsquery = <<>>
    /\ text_index = "built"
    /\ lexical_hits = <<>>
    /\ requests = <<>>
    /\ citation_style = "apa"
    /\ pub_authors = <<>>
    /\ formatted = <<>>
    /\ entry_point = "none"
    /\ pc = "wf_call"
    /\ \E call \in WeightedCalls :
          /\ bm25_weight = call.bw
          /\ vector_weight = call.vw
          /\ normalize = call.norm
    /\ weighted_results = <<>>
    /\ texts = <<>>
    /\ retries = 0
    /\ api_calls = 0
    /\ api_errors = <<>>
    /\ embeddings = <<>>
    /\ \E l \in {r \in LexicalLists : AscendingIds(r)} :
          bm25_results = FloatScores(l, "bm25_score", 1)
    /\ \E l \in VectorLists : vector_results = FloatScores(l, "vector_score", 100)
    /\ fused_results = <<>>
    /\ RerankIdle
    /\ VectorIdle
    /\ EngineIdle
    /\ outcome = "none"

\* HybridFusion.weighted_fusion(bm25_results, vector_results, bm25_weight,
\* vector_weight, normalize)
WeightedFusionCall ==
    /\ pc = "wf_call"
    /\ weighted_results' = weighted_fusion(bm25_results, vector_results,
                                           Tenths(bm25_weight), Tenths(vector_weight),
                                           normalize)
    /\ bm25_results' = InputAfterFusion(bm25_results, "bm25_score", normalize)
    /\ vector_results' = InputAfterFusion(vector_results, "vector_score", normalize)
    /\ pc' = "wf_done"
    /\ outcome' = "returned"
    /\ UNCHANGED <<fused_results, rerank_vars, vector_vars, engine_vars, failed_at,
                   lexical_vars, requests, citation_vars, entry_point, bm25_weight,
                   vector_weight, normalize, retry_vars>>

NextWeighted == WeightedFusionCall

SpecWeighted == InitWeighted /\ [][NextWeighted]_vars

----------------------------------------------------------------------------
(* search/citation.py: CitationFormatter                                      *)

\* _format_single_result: "final" is result.get("final_score",
\* result.get("rerank_score", result.get("rrf_score", 0.0))); the value is kept
\* with the name of the key it was read from, since the three scores have
\* different units
FinalRelevance(result) ==
    IF "final_score" \in DOMAIN result THEN <<"final_score", result.final_score>>
    ELSE IF "rerank_score" \in DOMAIN result THEN <<"rerank_score", result.rerank_score>>
    ELSE IF "rrf_score" \in DOMAIN result THEN <<"rrf_score", result.rrf_score>>
    ELSE <<"default", 0>>

\* the citation builder chosen by chunk_type; other types get no "citation" key
CitationKindWithoutKeywords(chunk_type) ==
    IF chunk_type \in {"publication_title", "publication_abstract"}
    THEN "publication"
    ELSE IF chunk_type \in {"person_basic", "person_biography"} THEN "person"
    ELSE "none"
CitationKind(chunk_type) ==
    IF chunk_type \in {"publication_title", "publication_abstract", "publication_keywords"}
    THEN "publication"
    ELSE IF chunk_type \in {"person_basic", "person_biography"} THEN "person"
    ELSE "none"

format_single_result(result, citation_id) ==
    [citation_id |-> citation_id,
     chunk_id |-> result.chunk_id,
     chunk_type |-> ChunkType(result.chunk_id),
     relevance_scores |->
        [bm25 |-> Get(result, "bm25_score", 0),
         vector |-> Get(result, "vector_score", 0),
         rrf |-> Get(result, "rrf_score", <<0, 1>>),
         rerank |-> Get(result, "rerank_score", 0),
         final |-> FinalRelevance(result)],
     citation |-> CitationKind(ChunkType(result.chunk_id))]

\* format_results: enumerate(results, start=1)
FormatResultsFromZero(results) ==
    [idx \in 1..Len(results) |-> format_single_result(results[idx], idx - 1)]
format_results(results) ==
    [idx \in 1..Len(results) |-> format_single_result(results[idx], idx)]

\* create_answer_with_citations: top_results = results[:max_citations]
create_answer_with_citations(results, max_citations) ==
    LET top_results == Take(results, max_citations)
    IN  [citations |-> format_results(top_results),
         total_results |-> Len(results),
         shown_citations |-> Len(top_results)]

\* _format_citation_string.  A string is the sequence of its pieces: author
\* names, the literal text between the fields, and "{year}", "{title}",
\* "{venue}" for the values of the citation's other fields.
UnknownAuthor == <<"Unknown Author">>

\* author_str of the "apa" branch
ApaAuthorStr(authors) ==
    IF authors = <<>> THEN UnknownAuthor
    ELSE IF Len(authors) = 1 THEN <<authors[1]>>
    ELSE IF Len(authors) = 2 THEN <<authors[1], " & ", authors[2]>>
    ELSE <<authors[1], " et al.">>

\* author_str of the "ieee" branch
IeeeAuthorStr(authors) ==
    IF authors = <<>> THEN UnknownAuthor
    ELSE IF Len(authors) = 1 THEN <<authors[1]>>
    ELSE <<authors[1], " et al.">>

\* author_str of the "mla" branch
MlaAuthorStr(authors) ==
    IF authors = <<>> THEN UnknownAuthor ELSE <<authors[1]>>

format_citation_string(authors, style) ==
    CASE style = "apa" ->
            ApaAuthorStr(authors) \o <<" (", "{year}", "). ", "{title}", ". ", "{venue}", ".">>
      [] style = "ieee" ->
            IeeeAuthorStr(authors) \o <<", \"", "{title}", ",\" ", "{venue}", ", ", "{year}", ".">>
      [] style = "mla" ->
            MlaAuthorStr(authors) \o <<". \"", "{title}", ".\" ", "{venue}", ", ", "{year}", ".">>
      [] OTHER -> <<"{title}", " (", "{year}", ")">>

\* citation["formatted"] of every result format_results formats: publication
\* citations carry the formatted string, person citations have none
formatted_strings(results, authors, style) ==
    [idx \in 1..Len(results) |->
        IF CitationKind(ChunkType(results[idx].chunk_id)) = "publication"
        THEN Some(format_citation_string(authors, style))
        ELSE NoneVal]

----------------------------------------------------------------------------
(* search/hybrid_search.py: HybridSearchEngine                                *)

\* search: limit=50 for both searchers, fused_results[:80]
SearchLimit == 50
CandidateBudget == 80

\* search runs its steps in statement order: the stage that follows each stage
\* when it does not raise
StageAfterFusingEarly(stage) ==
    CASE stage = "bm25" -> "fuse"
      [] stage = "vector" -> "fuse"
      [] stage = "fuse" -> "rerank"
      [] stage = "rerank" -> "cite"
      [] stage = "cite" -> "done"
StageAfter(stage) ==
    CASE stage = "bm25" -> "vector"
      [] stage = "vector" -> "fuse"
      [] stage = "fuse" -> "rerank"
      [] stage = "rerank" -> "cite"
      [] stage = "cite" -> "done"

\* __init__: self.use_reranker = use_reranker; if Reranker(...) raises,
\* self.use_reranker = False
UseRerankerAsRequested(requested, built) == requested
UseRerankerAfterInit(requested, built) == requested /\ built

----------------------------------------------------------------------------
(* Specification Spec: an engine is constructed and serves one search call.   *)
(* Three corpora are explored: a small one, with every lexical result over    *)
(* it, a large one whose two result lists are disjoint and as long as the     *)
(* searchers' limit, so that fusion yields more than the candidate budget,    *)
(* and an empty one.                                                          *)

SmallCorpus == [i \in 1..NumEmbedded |-> i]
LargeCorpus == [i \in 1..BigCorpus |-> i]

\* What the lexical searcher may return (its SQL applies the type filter, orders
\* by score and applies LIMIT).  For the large corpus one result is explored:
\* the first `lim` keyword and title chunks and chunks of recent publications.
LargeLexical(lim) ==
    LET ids == Take(SelectSeq(LargeCorpus, LAMBDA c : c % 6 \in {0, 3, 4}), lim)
    IN  [i \in 1..Len(ids) |-> [chunk_id |-> ids[i], bm25_score |-> 1, source |-> "bm25"]]

LexicalResults(corpus, types, lim) ==
    IF Len(corpus) > NumEmbedded
    THEN {LargeLexical(lim)}
    ELSE {Take(l, lim) : l \in {r \in LexicalLists :
                \A i \in 1..Len(r) : /\ r[i].chunk_id \in Range(corpus)
                                      /\ TypeMatches(r[i].chunk_id, types)}}

\* relevance models: the score the cross-encoder gives a (query, chunk) pair
ScorerKinds == {"flat", "by_chunk", "by_chunk_reversed"}
ScorerScore(kind, c) ==
    CASE kind = "flat" -> 100000
      [] kind = "by_chunk" -> (c % 3) * 100000
      [] kind = "by_chunk_reversed" -> (2 - (c % 3)) * 100000

EngineQueryVecs == {<<3, 4>>, <<0, -5>>}
EngineAnnStates == {"ok", "index_missing", "db_down"}
EngineEmbedderStates == {"up", "down"}

SearchInputs ==
    {[k |-> k, types |-> t, q |-> q, corpus |-> SmallCorpus, ann |-> a, emb |-> e]
        : k \in 0..MaxTopK, t \in TypeFilters, q \in EngineQueryVecs,
          a \in EngineAnnStates, e \in EngineEmbedderStates}
    \cup
    {[k |-> k, types |-> {}, q |-> <<3, 4>>, corpus |-> LargeCorpus, ann |-> a, emb |-> "up"]
        : k \in {MaxTopK, BigTopK}, a \in {"ok", "index_missing"}}
    \cup
    {[k |-> k, types |-> {}, q |-> <<3, 4>>, corpus |-> <<>>, ann |-> a, emb |-> "up"]
        : k \in 0..MaxTopK, a \in {"ok", "index_missing"}}

Init ==
    /\ AuxIdle
    /\ pc = "construct"
    /\ FusionIdle
    /\ RerankIdle
    /\ VectorIdle
    /\ EngineIdle
    /\ outcome = "none"

\* HybridSearchEngine.__init__
Construct ==
    /\ UNCHANGED aux_vars
    /\ pc = "construct"
    /\ \E requested \in BOOLEAN, init_ok \in BOOLEAN :
         /\ use_reranker_arg' = requested
         /\ reranker_built' = (requested /\ init_ok)
         /\ use_reranker' = UseRerankerAfterInit(requested, requested /\ init_ok)
    /\ pc' = "idle"
    /\ UNCHANGED <<fusion_vars, rerank_vars, vector_vars, citations, response, failed_at,
                   outcome>>

\* search(query, top_k, chunk_types) is called
SearchCall ==
    /\ UNCHANGED aux_vars
    /\ pc = "idle"
    /\ \E in \in SearchInputs :
         /\ top_k' = in.k
         /\ chunk_types' = in.types
         /\ query_vec' = in.q
         /\ row_order' = in.corpus
         /\ ann_status' = in.ann
         /\ embedder' = in.emb
    /\ limit' = SearchLimit
    /\ similarity_threshold' = 0
    /\ pc' = "bm25"
    /\ UNCHANGED <<fusion_vars, candidate_results, boost_fields, rerank_scores, scorer_up,
                   final_results, embed_calls, session_tx, fallback_entered, scanned,
                   numpy_results, engine_vars, failed_at, outcome>>

\* Step 1: self.bm25_searcher.search(query, limit=50, chunk_types); its
\* exceptions are not caught
BM25Search ==
    /\ UNCHANGED aux_vars
    /\ pc = "bm25"
    /\ \/ /\ \E l \in LexicalResults(row_order, chunk_types, SearchLimit) :
                bm25_results' = l
          /\ pc' = StageAfter("bm25")
          /\ UNCHANGED <<failed_at, outcome>>
       \/ /\ pc' = "failed" /\ failed_at' = "bm25" /\ outcome' = "raised"
          /\ UNCHANGED bm25_results
    /\ UNCHANGED <<vector_results, fused_results, rerank_vars, vector_vars, engine_vars>>

\* Step 1: self.vector_searcher.search(query, limit=50, chunk_types)
VectorSearch == VSPgvector("vector", "vector_fallback", StageAfter("vector"), "none")
VectorSearchFallback ==
    VSFallback("vector_fallback", StageAfter("vector"), "none", "failed")

\* Step 2: reciprocal_rank_fusion([bm25_results, vector_results], k=60) and
\* candidate_results = fused_results[:80]
Fuse ==
    /\ UNCHANGED aux_vars
    /\ pc = "fuse"
    /\ fused_results' = reciprocal_rank_fusion(<<bm25_results, vector_results>>, RRF_K)
    /\ candidate_results' = Take(fused_results', CandidateBudget)
    /\ pc' = StageAfter("fuse")
    /\ UNCHANGED <<bm25_results, vector_results, top_k, boost_fields, rerank_scores,
                   scorer_up, final_results, vector_vars, engine_vars, failed_at, outcome>>

\* Step 3, "if self.use_reranker": self.reranker.rerank_with_metadata(...).
\* Nothing catches what the call raises.  The candidates are the fused
\* documents themselves, so the scores written in place show in fused_results.
Rerank ==
    /\ UNCHANGED aux_vars
    /\ pc = "rerank"
    /\ use_reranker
    /\ boost_fields' = SearchBoostFields
    /\ IF ~reranker_built
       THEN \* self.reranker was never assigned: AttributeError
            /\ pc' = "failed" /\ failed_at' = "rerank" /\ outcome' = "raised"
            /\ UNCHANGED <<fused_results, candidate_results, rerank_scores, scorer_up,
                           final_results>>
       ELSE \E kind \in ScorerKinds, up \in BOOLEAN :
            LET scores == [c \in Range(ChunkIds(candidate_results)) |-> ScorerScore(kind, c)]
                r == rerank_with_metadata(candidate_results, scores, up, top_k,
                                          SearchBoostFields)
                docs == DocsAfterRerank(candidate_results, scores, up, top_k,
                                        SearchBoostFields)
            IN  /\ scorer_up' = up
                /\ rerank_scores' = scores
                /\ candidate_results' = docs
                /\ fused_results' = docs \o SubSeq(fused_results, Len(docs) + 1,
                                                   Len(fused_results))
                /\ IF r.raised
                   THEN /\ pc' = "failed" /\ failed_at' = "rerank" /\ outcome' = "raised"
                        /\ UNCHANGED final_results
                   ELSE /\ final_results' = r.value
                        /\ pc' = StageAfter("rerank")
                        /\ UNCHANGED <<failed_at, outcome>>
    /\ UNCHANGED <<bm25_results, vector_results, top_k, vector_vars, engine_vars>>

\* Step 3, else: final_results = candidate_results[:top_k]
SkipRerank ==
    /\ UNCHANGED aux_vars
    /\ pc = "rerank"
    /\ ~use_reranker
    /\ final_results' = Take(candidate_results, top_k)
    /\ pc' = StageAfter("rerank")
    /\ UNCHANGED <<fusion_vars, candidate_results, top_k, boost_fields, rerank_scores,
                   scorer_up, vector_vars, engine_vars, failed_at, outcome>>

\* _get_score_breakdown: {} for no results; else the list of each score over
\* the results (rerank_scores only "if self.use_reranker") and, for every list,
\* its average, maximum and minimum.  The three statistics are functions of the
\* list; the model records the lists and the keys the statistics are added for.
ScoreList(results, key, default) ==
    [i \in 1..Len(results) |-> Get(results[i], key, default)]

get_score_breakdown(results, reranking) ==
    IF results = <<>> THEN [lists |-> <<>>, statistics_of |-> {}]
    ELSE LET base == [bm25_scores |-> ScoreList(results, "bm25_score", 0),
                      vector_scores |-> ScoreList(results, "vector_score", 0),
                      rrf_scores |-> ScoreList(results, "rrf_score", <<0, 1>>)]
             lists == IF reranking
                      THEN SetKey(base, "rerank_scores", ScoreList(results, "rerank_score", 0))
                      ELSE base
         IN  [lists |-> lists, statistics_of |-> DOMAIN lists]

\* Step 4 and the response: create_answer_with_citations(query, final_results,
\* max_citations=top_k); total_results is len(fused_results); the response has
\* a score_breakdown "if include_scores", an argument read only here
Cite ==
    /\ UNCHANGED aux_vars
    /\ pc = "cite"
    /\ citations' = create_answer_with_citations(final_results, top_k).citations
    /\ \E include_scores \in BOOLEAN :
         response' = [total_results |-> Len(fused_results),
                      returned_results |-> Len(final_results),
                      citations |-> citations',
                      search_metadata |-> [bm25_results |-> Len(bm25_results),
                                           vector_results |-> Len(vector_results),
                                           fused_results |-> Len(fused_results),
                                           reranked |-> use_reranker],
                      score_breakdown |->
                          IF include_scores
                          THEN Some(get_score_breakdown(final_results, use_reranker))
                          ELSE NoneVal]
    /\ outcome' = "returned"
    /\ pc' = StageAfter("cite")
    /\ UNCHANGED <<fusion_vars, rerank_vars, vector_vars, use_reranker_arg, reranker_built,
                   use_reranker, failed_at>>

Next ==
    \/ Construct
    \/ SearchCall
    \/ BM25Search
    \/ VectorSearch
    \/ VectorSearchFallback
    \/ Fuse
    \/ Rerank
    \/ SkipRerank
    \/ Cite

Spec == Init /\ [][Next]_vars

----------------------------------------------------------------------------
(* search/bm25_search.py: BM25Searcher                                        *)
(* A query is a sequence of characters; "a" stands for the alphanumeric       *)
(* characters, "!" for the characters _build_tsquery removes.                 *)

MaxQueryLen == 3
QueryAlphabet == {"a", "-", "!", " "}
QueryTexts == UNION {[1..n -> QueryAlphabet] : n \in 0..MaxQueryLen}

\* query.strip().split(): the maximal runs of non-whitespace characters
RECURSIVE SplitLoop(_, _, _)
SplitLoop(text, term, terms) ==
    IF text = <<>>
    THEN IF term = <<>> THEN terms ELSE Append(terms, term)
    ELSE IF Head(text) = " "
    THEN SplitLoop(Tail(text), <<>>, IF term = <<>> THEN terms ELSE Append(terms, term))
    ELSE SplitLoop(Tail(text), Append(term, Head(text)), terms)

Split(text) == SplitLoop(text, <<>>, <<>>)

\* c.isalnum() or c in ['-', '_']
KeptChar(c) == c \in {"a", "-", "_"}

\* cleaned_terms: each term without its other characters, empty terms dropped
CleanedTerms(text) ==
    LET cleaned == [i \in 1..Len(Split(text)) |-> SelectSeq(Split(text)[i], KeptChar)]
    IN  SelectSeq(cleaned, LAMBDA t : t # <<>>)

\* ' & '.join(cleaned_terms)
RECURSIVE JoinAnd(_)
JoinAnd(terms) ==
    IF terms = <<>> THEN <<>>
    ELSE IF Len(terms) = 1 THEN terms[1]
    ELSE terms[1] \o <<" ", "&", " ">> \o JoinAnd(Tail(terms))

\* _build_tsquery: "" when no term is left
build_tsquery(text) == JoinAnd(CleanedTerms(text))

\* session.execute(sql, params) raises when content_tsv does not exist or the
\* session's transaction is aborted; search has no try/except around it
TextStatementFails(index, tx) == index # "built" \/ tx # "clean"

\* WHERE content_tsv @@ to_tsquery('english', :tsquery) [AND chunk_type IN ...]
\* ORDER BY bm25_score DESC LIMIT :limit; an empty tsquery matches no row
bm25_rows(ts, hits, types, lim) ==
    IF ts = <<>> THEN <<>>
    ELSE Take(SelectSeq(hits, LAMBDA d : TypeMatches(d.chunk_id, types)), lim)

----------------------------------------------------------------------------
(* Specification SpecQuery: one search call of an engine without reranker,    *)
(* followed from the text of the query.  The embedding provider answers any   *)
(* text with some vector.                                                     *)

TextIndexStates == {"built", "missing"}

InitQuery ==
    /\ AuxIdle
    /\ pc = "q_idle"
    /\ FusionIdle
    /\ RerankIdle
    /\ VectorIdle
    /\ EngineIdle
    /\ outcome = "none"

\* search(query, top_k) is called
QueryCall ==
    /\ pc = "q_idle"
    /\ query' \in QueryTexts
    /\ text_index' \in TextIndexStates
    /\ lexical_hits' \in LexicalResults(SmallCorpus, {}, SearchLimit)
    /\ query_vec' \in EngineQueryVecs
    /\ ann_status' \in {"ok", "index_missing"}
    /\ top_k' = MaxTopK
    /\ chunk_types' = {}
    /\ row_order' = SmallCorpus
    /\ limit' = SearchLimit
    /\ similarity_threshold' = 0
    /\ pc' = "q_bm25"
    /\ UNCHANGED <<fusion_vars, candidate_results, boost_fields, rerank_scores, scorer_up,
                   final_results, embedder, embed_calls, session_tx, fallback_entered,
                   scanned, numpy_results, engine_vars, failed_at, tsquery, requests,
                   citation_vars, more_vars, outcome>>

\* Step 1: BM25Searcher.search(query, limit=50, chunk_types)
QueryBM25 ==
    /\ pc = "q_bm25"
    /\ tsquery' = build_tsquery(query)
    /\ IF TextStatementFails(text_index, session_tx)
       THEN /\ session_tx' = "aborted"
            /\ pc' = "failed" /\ failed_at' = "bm25" /\ outcome' = "raised"
            /\ UNCHANGED bm25_results
       ELSE /\ bm25_results' = bm25_rows(tsquery', lexical_hits, chunk_types, limit)
            /\ pc' = "vector"
            /\ UNCHANGED <<session_tx, failed_at, outcome>>
    /\ UNCHANGED <<vector_results, fused_results, rerank_vars, vector_args, embed_calls,
                   fallback_entered, scanned, numpy_results, engine_vars, query,
                   text_index, lexical_hits, requests, citation_vars, more_vars>>

NextQuery ==
    \/ QueryCall
    \/ QueryBM25
    \/ VectorSearch
    \/ VectorSearchFallback
    \/ Fuse
    \/ SkipRerank
    \/ Cite

SpecQuery == InitQuery /\ [][NextQuery]_vars

----------------------------------------------------------------------------
(* Specification SpecVariants: one call of search, search_publications_only   *)
(* or search_researchers_only on an engine without reranker, over the small   *)
(* corpus.  The two variants call search with a fixed chunk_types list; their *)
(* filters argument is only echoed in search_metadata.                        *)

\* chunk_types=["publication_abstract", "publication_title"]
PublicationsOnlyTypes == {"publication_abstract", "publication_title"}
\* chunk_types=["person_biography", "person_basic"]
ResearchersOnlyTypes == {"person_biography", "person_basic"}

\* the chunk_types a caller of search passes: None, or the types of one kind
DirectTypeFilters ==
    {{},
     {"publication_title", "publication_abstract", "publication_keywords"},
     {"person_basic", "person_biography"}}

InitVariants ==
    /\ AuxIdle
    /\ pc = "v_idle"
    /\ FusionIdle
    /\ RerankIdle
    /\ VectorIdle
    /\ EngineIdle
    /\ outcome = "none"

\* search(query, top_k, chunk_types) is entered from the method `name`
EnterSearch(name, types) ==
    /\ pc = "v_idle"
    /\ entry_point' = name
    /\ chunk_types' = types
    /\ query' = <<"a">>
    /\ text_index' = "built"
    /\ lexical_hits' \in LexicalResults(SmallCorpus, {}, SearchLimit)
    /\ query_vec' \in EngineQueryVecs
    /\ ann_status' \in {"ok", "index_missing"}
    /\ top_k' \in 1..MaxTopK
    /\ row_order' = SmallCorpus
    /\ limit' = SearchLimit
    /\ similarity_threshold' = 0
    /\ pc' = "q_bm25"
    /\ UNCHANGED <<fusion_vars, candidate_results, boost_fields, rerank_scores, scorer_up,
                   final_results, embedder, embed_calls, session_tx, fallback_entered,
                   scanned, numpy_results, engine_vars, failed_at, tsquery, requests,
                   citation_vars, weighted_vars, retry_vars, outcome>>

SearchDirect == \E types \in DirectTypeFilters : EnterSearch("search", types)

\* search_publications_only(query, top_k): return self.search(...)
SearchPublicationsOnly == EnterSearch("search_publications_only", PublicationsOnlyTypes)

\* search_researchers_only(query, top_k): return self.search(...)
SearchResearchersOnly == EnterSearch("search_researchers_only", ResearchersOnlyTypes)

NextVariants ==
    \/ SearchDirect
    \/ SearchPublicationsOnly
    \/ SearchResearchersOnly
    \/ QueryBM25
    \/ VectorSearch
    \/ VectorSearchFallback
    \/ Fuse
    \/ SkipRerank
    \/ Cite

SpecVariants == InitVariants /\ [][NextVariants]_vars

----------------------------------------------------------------------------
(* pipeline/step4_generate_embeddings.py: EmbeddingGenerator._generate_openai *)

\* CONFIG["max_retries"]
MaxRetries == 3

\* "if retries >= CONFIG['max_retries']: raise", after retries += 1
RetriesExhaustedLate(n) == n > MaxRetries
RetriesExhausted(n) == n >= MaxRetries

\* [item.embedding for item in response.data]: one vector per text
TextVector(t) == IF t = "t1" THEN <<3, 4>> ELSE <<0, -5>>
ResponseEmbeddings(batch) == [i \in 1..Len(batch) |-> TextVector(batch[i])]

----------------------------------------------------------------------------
(* Specification SpecGenerate: one call of _generate_openai(texts).  Each    *)
(* step is one pass of the while loop: the API call answers or raises one    *)
(* of the provider's errors.  SpecGenerateLive adds that the loop keeps      *)
(* running: the API call and time.sleep return.                              *)

MaxBatch == 2
Texts == {"t1", "t2"}
TextBatches == UNION {[1..n -> Texts] : n \in 1..MaxBatch}
ApiErrors == {"rate_limit", "timeout", "server_error"}

InitGenerate ==
    /\ pc = "gen_loop"
    /\ FusionIdle
    /\ RerankIdle
    /\ VectorIdle
    /\ EngineIdle
    /\ query = <<>>
    /\ tsquery = <<>>
    /\ text_index = "built"
    /\ lexical_hits = <<>>
    /\ requests = <<>>
    /\ citation_style = "apa"
    /\ pub_authors = <<>>
    /\ formatted = <<>>
    /\ entry_point = "none"
    /\ bm25_weight = 0
    /\ vector_weight = 0
    /\ normalize = FALSE
    /\ weighted_results = <<>>
    /\ texts \in TextBatches
    /\ retries = 0
    /\ api_calls = 0
    /\ api_errors = <<>>
    /\ embeddings = NoneVal
    /\ outcome = "none"

\* one test of "while retries < CONFIG['max_retries']" and the pass of the
\* loop body that follows it; when the test fails the function ends without
\* a return statement and the caller gets None
GenerateOpenAI ==
    /\ pc = "gen_loop"
    /\ IF retries < MaxRetries
       THEN /\ api_calls' = api_calls + 1
            /\ \/ \* response = self.client.embeddings.create(...); return embeddings
                  /\ embeddings' = Some(ResponseEmbeddings(texts))
                  /\ outcome' = "returned"
                  /\ pc' = "gen_done"
                  /\ UNCHANGED <<retries, api_errors>>
               \/ \* except Exception as e: retries += 1; raise, or sleep and loop
                  \E e \in ApiErrors :
                     /\ retries' = retries + 1
                     /\ api_errors' = Append(api_errors, e)
                     /\ IF RetriesExhausted(retries')
                        THEN outcome' = "raised" /\ pc' = "gen_done"
                        ELSE outcome' = outcome /\ pc' = "gen_loop"
                     /\ UNCHANGED embeddings
       ELSE /\ outcome' = "returned"
            /\ pc' = "gen_done"
            /\ UNCHANGED <<retries, api_calls, api_errors, embeddings>>
    /\ UNCHANGED <<fusion_vars, rerank_vars, vector_vars, engine_vars, failed_at,
                   lexical_vars, requests, citation_vars, entry_point, weighted_vars,
                   texts>>

NextGenerate == GenerateOpenAI

SpecGenerate == InitGenerate /\ [][NextGenerate]_vars

SpecGenerateLive == SpecGenerate /\ WF_vars(NextGenerate)

----------------------------------------------------------------------------
(* Specification SpecCitation: one call of CitationFormatter.format_results  *)
(* on a list of results, with the authors the publication lookup yields.     *)

MaxAuthors == 3
AuthorNames == {"Alice", "Bob", "Carol"}
AuthorLists == UNION {[1..n -> AuthorNames] : n \in 0..MaxAuthors}
CitationStyles == {"apa", "ieee", "mla", "chicago"}

InitCitation ==
    /\ pc = "fmt_call"
    /\ FusionIdle
    /\ candidate_results = <<>>
    /\ top_k = 0
    /\ boost_fields = {}
    /\ rerank_scores = <<>>
    /\ scorer_up = TRUE
    /\ final_results \in CandidateLists
    /\ VectorIdle
    /\ EngineIdle
    /\ query = <<>>
    /\ tsquery = <<>>
    /\ text_index = "built"
    /\ lexical_hits = <<>>
    /\ requests = <<>>
    /\ citation_style \in CitationStyles
    /\ pub_authors \in AuthorLists
    /\ formatted = <<>>
    /\ MoreIdle
    /\ outcome = "none"

\* format_results(results, citation_style=...)
FormatResults ==
    /\ pc = "fmt_call"
    /\ citations' = format_results(final_results)
    /\ formatted' = formatted_strings(final_results, pub_authors, citation_style)
    /\ outcome' = "returned"
    /\ pc' = "fmt_done"
    /\ UNCHANGED <<fusion_vars, rerank_vars, vector_vars, use_reranker_arg, reranker_built,
                   use_reranker, response, failed_at, lexical_vars, requests,
                   citation_style, pub_authors, more_vars>>

NextCitation == FormatResults

SpecCitation == InitCitation /\ [][NextCitation]_vars

----------------------------------------------------------------------------
(* Specifications SpecRepeat and SpecInterleaved: two search calls on one    *)
(* engine, with the same query and parameters, against unchanged data.  The  *)
(* engine's searchers and its citation formatter hold the one session the    *)
(* engine was built with (api_server.py builds one engine for all requests), *)
(* so session_tx is shared by the calls; bm25_results, vector_results and    *)
(* the lists derived from them are locals of each call.                      *)
(* SpecRepeat runs the second call after the first has ended,                *)
(* SpecInterleaved lets the steps of the two calls interleave.               *)

Requests == {1, 2}

\* rows of unchanged data are yielded in the same order on every scan
ScanOrderChanging(order, r) ==
    IF r = 1 THEN order ELSE [i \in 1..Len(order) |-> order[Len(order) + 1 - i]]
ScanOrder(order, r) == order

NewRequest == [stage |-> "bm25", bm25 |-> <<>>, vector |-> <<>>,
               outcome |-> "none", citations |-> <<>>]

Raised(req) == [req EXCEPT !.stage = "failed", !.outcome = "raised"]

Ended(r) == requests[r].stage \in {"done", "failed"}

\* pc tells how the caller issues the calls: "repeat", the second call is made
\* when the first has returned or raised; "interleaved", from two threads
MayStep(r) == pc = "interleaved" \/ \A earlier \in 1..(r - 1) : Ended(earlier)

InitRequests ==
    /\ FusionIdle
    /\ candidate_results = <<>>
    /\ top_k \in 1..MaxTopK
    /\ boost_fields = SearchBoostFields
    /\ \E kind \in ScorerKinds : rerank_scores = [c \in Embedded |-> ScorerScore(kind, c)]
    /\ scorer_up = TRUE
    /\ final_results = <<>>
    /\ query_vec \in EngineQueryVecs
    /\ limit = SearchLimit
    /\ chunk_types = {}
    /\ similarity_threshold = 0
    /\ row_order = SmallCorpus
    /\ ann_status \in EngineAnnStates
    /\ embedder = "up"
    /\ embed_calls = 0
    /\ session_tx = "clean"
    /\ fallback_entered = FALSE
    /\ scanned = FALSE
    /\ numpy_results = <<>>
    /\ use_reranker_arg \in BOOLEAN
    /\ reranker_built = use_reranker_arg
    /\ use_reranker = UseRerankerAfterInit(use_reranker_arg, reranker_built)
    /\ citations = <<>>
    /\ response = <<>>
    /\ failed_at = "none"
    /\ query = <<"a">>
    /\ tsquery = build_tsquery(query)
    /\ \/ /\ text_index = "built"
          /\ lexical_hits \in LexicalResults(SmallCorpus, {}, SearchLimit)
       \/ /\ text_index = "missing"
          /\ lexical_hits = <<>>
    /\ requests = [r \in Requests |-> NewRequest]
    /\ citation_style = "apa"
    /\ pub_authors = <<>>
    /\ formatted = <<>>
    /\ MoreIdle
    /\ outcome = "none"

request_frame == <<pc, fusion_vars, rerank_vars, vector_args, embed_calls, fallback_entered,
                   scanned, numpy_results, engine_vars, failed_at, lexical_vars,
                   citation_vars, more_vars, outcome>>

\* Step 1 of call r: BM25Searcher.search; a failed statement leaves the
\* session's transaction aborted and its exception leaves search
RequestBM25(r) ==
    /\ MayStep(r)
    /\ requests[r].stage = "bm25"
    /\ IF TextStatementFails(text_index, session_tx)
       THEN /\ session_tx' = "aborted"
            /\ requests' = [requests EXCEPT ![r] = Raised(@)]
       ELSE /\ requests' = [requests EXCEPT
                                ![r].bm25 = bm25_rows(tsquery, lexical_hits, chunk_types, limit),
                                ![r].stage = "vector"]
            /\ UNCHANGED session_tx
    /\ UNCHANGED request_frame

\* Step 1 of call r: VectorSearcher.search, try: search_with_pgvector
RequestPgvector(r) ==
    /\ MayStep(r)
    /\ requests[r].stage = "vector"
    /\ IF ann_status # "ok" \/ session_tx # "clean"
       THEN \* session.execute raises; search catches it
            /\ session_tx' = "aborted"
            /\ requests' = [requests EXCEPT ![r].stage = "rollback"]
       ELSE /\ requests' = [requests EXCEPT
                                ![r].vector = search_with_pgvector(query_vec, limit,
                                                    chunk_types, similarity_threshold,
                                                    ScanOrder(row_order, r)),
                                ![r].stage = "fuse"]
            /\ UNCHANGED session_tx
    /\ UNCHANGED request_frame

\* VectorSearcher.search, except: self.session.rollback()
RequestRollback(r) ==
    /\ MayStep(r)
    /\ requests[r].stage = "rollback"
    /\ session_tx' = SessionAfterRollback(session_tx)
    /\ requests' = [requests EXCEPT ![r].stage = "numpy"]
    /\ UNCHANGED request_frame

\* VectorSearcher.search, except: return self._search_with_numpy(...)
RequestNumpy(r) ==
    /\ MayStep(r)
    /\ requests[r].stage = "numpy"
    /\ IF ann_status = "db_down" \/ session_tx # "clean"
       THEN /\ session_tx' = "aborted"
            /\ requests' = [requests EXCEPT ![r] = Raised(@)]
       ELSE /\ requests' = [requests EXCEPT
                                ![r].vector = search_with_numpy(query_vec, limit,
                                                    chunk_types, similarity_threshold,
                                                    ScanOrder(row_order, r)),
                                ![r].stage = "fuse"]
            /\ UNCHANGED session_tx
    /\ UNCHANGED request_frame

\* Steps 2 to 4 on the call's own lists: fusion, fused_results[:80], reranking
\* "if self.use_reranker", citations
FinishSearch(bm25, vector) ==
    LET fused == reciprocal_rank_fusion(<<bm25, vector>>, RRF_K)
        candidates == Take(fused, CandidateBudget)
        scores == [c \in Range(ChunkIds(candidates)) |-> rerank_scores[c]]
        r == IF use_reranker
             THEN rerank_with_metadata(candidates, scores, scorer_up, top_k, boost_fields)
             ELSE [raised |-> FALSE, value |-> Take(candidates, top_k)]
    IN  IF r.raised
        THEN [outcome |-> "raised", citations |-> <<>>]
        ELSE [outcome |-> "returned",
              citations |-> create_answer_with_citations(r.value, top_k).citations]

RequestFinish(r) ==
    /\ MayStep(r)
    /\ requests[r].stage = "fuse"
    /\ LET result == FinishSearch(requests[r].bm25, requests[r].vector)
       IN  requests' = [requests EXCEPT
                            ![r].outcome = result.outcome,
                            ![r].citations = result.citations,
                            ![r].stage = IF result.outcome = "raised" THEN "failed"
                                         ELSE "done"]
    /\ UNCHANGED <<session_tx, request_frame>>

NextRequests ==
    \/ \E r \in Requests : RequestBM25(r)
    \/ \E r \in Requests : RequestPgvector(r)
    \/ \E r \in Requests : RequestRollback(r)
    \/ \E r \in Requests : RequestNumpy(r)
    \/ \E r \in Requests : RequestFinish(r)

InitRepeat ==
    /\ pc = "repeat"
    /\ InitRequests

SpecRepeat == InitRepeat /\ [][NextRequests]_vars

InitInterleaved ==
    /\ pc = "interleaved"
    /\ InitRequests

SpecInterleaved == InitInterleaved /\ [][NextRequests]_vars

\* what search returns to the caller of call r
ResultOf(r) == [outcome |-> requests[r].outcome, citations |-> requests[r].citations]

----------------------------------------------------------------------------
(* Claims about reciprocal_rank_fusion, checked under SpecFusion *)

HasChunk(list, c) == \E i \in 1..Len(list) : list[i].chunk_id = c
Position(list, c) == CHOOSE i \in 1..Len(list) : list[i].chunk_id = c

\* what one list contributes to a chunk by the RRF formula: 1/(k + rank) when
\* the chunk is in the list, 0 otherwise
ExpectedContribution(list, c) ==
    IF HasChunk(list, c) THEN <<1, RRF_K + Position(list, c)>> ELSE <<0, 1>>

\* C1: every fused chunk's rrf_score is the sum, over exactly the lists it
\* appears in, of 1/(k + rank) with rank its 1-based position in that list; a
\* list it is absent from contributes 0.
C1_RRFScoreIsSumOfReciprocalRanks ==
    pc = "rrf_done" =>
        \A i \in 1..Len(fused_results) :
            FracEq(fused_results[i].rrf_score,
                   FracAdd(ExpectedContribution(bm25_results, fused_results[i].chunk_id),
                           ExpectedContribution(vector_results, fused_results[i].chunk_id)))

\* the spec's example: rank 3 in list A and rank 1 in list B gives 1/63 + 1/61,
\* next to a chunk that only list A holds
C1_Witness ==
    /\ pc = "rrf_done"
    /\ \E i, j \in 1..Len(fused_results) :
          LET c == fused_results[i].chunk_id
              o == fused_results[j].chunk_id
          IN  /\ HasChunk(bm25_results, c) /\ Position(bm25_results, c) = 3
              /\ HasChunk(vector_results, c) /\ Position(vector_results, c) = 1
              /\ FracEq(fused_results[i].rrf_score, <<61 + 63, 61 * 63>>)
              /\ HasChunk(bm25_results, o) /\ ~HasChunk(vector_results, o)
              /\ FracEq(fused_results[j].rrf_score, <<1, RRF_K + Position(bm25_results, o)>>)

\* C2: the chunk_ids of the fused output are exactly the union of the input
\* lists' chunk_ids, each exactly once, nothing truncated.
C2_FusedIsDeduplicatedUnion ==
    pc = "rrf_done" =>
        LET union == Range(ChunkIds(bm25_results)) \cup Range(ChunkIds(vector_results))
        IN  /\ Range(ChunkIds(fused_results)) = union
            /\ Len(fused_results) = Cardinality(union)

\* two lists that share exactly one chunk_id fuse to |A| + |B| - 1 entries
C2_Witness ==
    /\ pc = "rrf_done"
    /\ Len(bm25_results) >= 2 /\ Len(vector_results) >= 2
    /\ Cardinality(Range(ChunkIds(bm25_results)) \cap Range(ChunkIds(vector_results))) = 1
    /\ Len(fused_results) = Len(bm25_results) + Len(vector_results) - 1

\* C3: a fused candidate carries the score it had in every list that found it
\* (bm25_score from the lexical list, vector_score from the vector list), and 0
\* for a signal that did not find it.
C3_FusedCarriesBothSignalScores ==
    pc = "rrf_done" =>
        \A i \in 1..Len(fused_results) :
            LET d == fused_results[i]
                c == d.chunk_id
            IN  /\ d.bm25_score =
                     IF HasChunk(bm25_results, c)
                     THEN bm25_results[Position(bm25_results, c)].bm25_score ELSE 0
                /\ d.vector_score =
                     IF HasChunk(vector_results, c)
                     THEN vector_results[Position(vector_results, c)].vector_score ELSE 0

\* C22: the list reciprocal_rank_fusion returns is ordered by rrf_score
\* descending: of two adjacent entries the earlier one's rrf_score is greater
\* than or equal to the later one's.
C22_FusedOrderedByRRFScoreDescending ==
    pc = "rrf_done" =>
        \A i \in 1..(Len(fused_results) - 1) :
            ~FracLess(fused_results[i].rrf_score, fused_results[i + 1].rrf_score)

\* the sort moved chunks: the fused list is the lexical list reversed, with
\* strictly decreasing scores
C22_Witness ==
    /\ pc = "rrf_done"
    /\ Len(bm25_results) = 3
    /\ Len(fused_results) = 3
    /\ \A i \in 1..3 : fused_results[i].chunk_id = bm25_results[4 - i].chunk_id
    /\ \A i \in 1..2 :
          FracLess(fused_results[i + 1].rrf_score, fused_results[i].rrf_score)

----------------------------------------------------------------------------
(* Claims about weighted_fusion, checked under SpecWeighted *)

\* min-max normalisation of the i-th of a list of scores whose minimum and
\* maximum differ
MinMax(scores, i) ==
    RatDiv(RatSub(scores[i], MinScore(scores)),
           RatSub(MaxScore(scores), MinScore(scores)))

InUnitInterval(x) == ~RatLess(x, <<0, 1>>) /\ ~RatLess(<<1, 1>>, x)

\* what the claim asks of the normalised score `n` an output entry carries for
\* chunk c, given the source list as it was passed
NormalisedFrom(n, list, score_field, c) ==
    LET scores == FieldScores(list, score_field)
    IN  /\ InUnitInterval(n)
        /\ ~HasChunk(list, c) => n = <<0, 1>>
        /\ (HasChunk(list, c) /\ MinScore(scores) # MaxScore(scores)) =>
                n = MinMax(scores, Position(list, c))

\* C26: weighted_fusion with normalize=True min-max normalises each source's
\* scores independently to [0, 1] (the minimum maps to 0 and the maximum to 1
\* when they differ), each chunk of either list appears exactly once in the
\* output, its weighted_score is bm25_weight * normalised bm25 score +
\* vector_weight * normalised vector score with a missing signal counted as
\* 0, and the output is ordered by weighted_score descending.
C26_WeightedFusionCombinesNormalisedScores ==
    [][(pc = "wf_call" /\ normalize) =>
        LET out == weighted_results'
            ids == Range(ChunkIds(bm25_results)) \cup Range(ChunkIds(vector_results))
        IN  /\ Range(ChunkIds(out)) = ids
            /\ Len(out) = Cardinality(ids)
            /\ \A i \in 1..Len(out) :
                  /\ NormalisedFrom(out[i].bm25_score, bm25_results, "bm25_score",
                                    out[i].chunk_id)
                  /\ NormalisedFrom(out[i].vector_score, vector_results, "vector_score",
                                    out[i].chunk_id)
                  /\ out[i].weighted_score =
                        RatAdd(RatMul(Tenths(bm25_weight), out[i].bm25_score),
                               RatMul(Tenths(vector_weight), out[i].vector_score))
            /\ \A i \in 1..(Len(out) - 1) :
                  ~RatLess(out[i].weighted_score, out[i + 1].weighted_score)]_vars

\* a normalised fusion with weights 0.7 / 0.3 returned three chunks: one that
\* both lists hold, with the best lexical score and a vector score strictly
\* between the minimum and the maximum, one with the lowest lexical score,
\* and one that only the vector list holds
C26_Witness ==
    /\ pc = "wf_done"
    /\ normalize
    /\ bm25_weight = 7 /\ vector_weight = 3
    /\ Len(weighted_results) = 3
    /\ \E i, j, k \in 1..3 :
          /\ weighted_results[i].bm25_score = <<1, 1>>
          /\ RatLess(<<0, 1>>, weighted_results[i].vector_score)
          /\ RatLess(weighted_results[i].vector_score, <<1, 1>>)
          /\ HasChunk(bm25_results, weighted_results[j].chunk_id)
          /\ weighted_results[j].bm25_score = <<0, 1>>
          /\ ~HasChunk(bm25_results, weighted_results[k].chunk_id)
          /\ weighted_results[k].vector_score = <<1, 1>>

\* C28: the fusion functions leave their inputs alone: after weighted_fusion
\* (normalize=True) or reciprocal_rank_fusion returns, every dict in the
\* caller's input lists holds the same bm25_score / vector_score and the same
\* keys as before the call.
\* The code refutes it for weighted_fusion: _normalize_scores writes the
\* normalised score into the caller's dicts.
C28_FusionLeavesInputsUnchanged ==
    [][bm25_results' = bm25_results /\ vector_results' = vector_results]_vars

----------------------------------------------------------------------------
(* Claims about Reranker.rerank_with_metadata, checked under SpecRerank *)

\* the score a returned result is ordered by: final_score, or rerank_score when
\* no boosts were given (citation.py line 74 reads it the same way)
EffectiveFinal(d) ==
    IF "final_score" \in DOMAIN d THEN d.final_score ELSE Get(d, "rerank_score", 0)

\* position at which chunk c arrived in the candidate list
Arrival(c) == CHOOSE i \in 1..Len(candidate_results) : candidate_results[i].chunk_id = c

RerankReturned == pc = "rerank_done" /\ outcome = "returned"

\* C4 as claimed: the returned list is in final_score descending order and
\* results with equal final_score are in ascending chunk_id order.
C4_CanonicalOrderTieByChunkId ==
    RerankReturned =>
        \A i, j \in 1..Len(final_results) :
            i < j =>
                \/ EffectiveFinal(final_results[i]) > EffectiveFinal(final_results[j])
                \/ /\ EffectiveFinal(final_results[i]) = EffectiveFinal(final_results[j])
                   /\ final_results[i].chunk_id < final_results[j].chunk_id

\* C4 amended: the returned list is in final_score descending order; results
\* with equal final_score are in descending rerank_score order and, when that
\* is equal too, in the order the candidates arrived in.
C4_FinalScoreDescendingStableTies ==
    RerankReturned =>
        \A i, j \in 1..Len(final_results) :
            i < j =>
                LET x == final_results[i]
                    y == final_results[j]
                IN  \/ EffectiveFinal(x) > EffectiveFinal(y)
                    \/ /\ EffectiveFinal(x) = EffectiveFinal(y)
                       /\ \/ x.rerank_score > y.rerank_score
                          \/ /\ x.rerank_score = y.rerank_score
                             /\ Arrival(x.chunk_id) < Arrival(y.chunk_id)

\* boosts were applied and two returned results tie on final_score
C4_Witness ==
    /\ RerankReturned
    /\ boost_fields # {}
    /\ \E i, j \in 1..Len(final_results) :
          /\ i < j
          /\ final_results[i].final_score = final_results[j].final_score
          /\ final_results[i].rerank_score # final_results[j].rerank_score

\* final_score = rerank_score + boost contributions of a candidate
FinalOf(c) == rerank_scores[c] + BoostScore(Metadata(c), boost_fields)

Returned(c) == \E i \in 1..Len(final_results) : final_results[i].chunk_id = c

\* candidates the boost loop could not score (pub_year None) have no final_score
LeftOut == {c \in Range(ChunkIds(candidate_results)) :
                ~Returned(c) /\ ~BoostRaises(Metadata(c), boost_fields)}

\* C5 as claimed: with boosts, the result is the top_k of the whole candidate
\* list by final_score: top_k results (or all candidates when fewer), and no
\* candidate left out has a final_score strictly greater than a returned one.
C5_TopKOfWholeListByFinalScore ==
    (RerankReturned /\ boost_fields # {}) =>
        /\ Len(final_results) = Min(top_k, Len(candidate_results))
        /\ \A c \in LeftOut : \A i \in 1..Len(final_results) :
              ~(FinalOf(c) > final_results[i].final_score)

\* e comes before c in the rerank_score order of the first stage
RerankPrecedes(e, c) ==
    \/ rerank_scores[e] > rerank_scores[c]
    \/ rerank_scores[e] = rerank_scores[c] /\ Arrival(e) < Arrival(c)

\* C5 amended: with boosts, the result is the top_k by final_score among the
\* 2*top_k candidates of highest rerank_score; a candidate left out although its
\* final_score is strictly greater than a returned one's has at least 2*top_k
\* candidates before it in rerank_score order (so none is when there are at most
\* 2*top_k candidates).
C5_TopKOfRerankPoolByFinalScore ==
    (RerankReturned /\ boost_fields # {}) =>
        /\ Len(final_results) = Min(top_k, Len(candidate_results))
        /\ \A c \in LeftOut : \A i \in 1..Len(final_results) :
              FinalOf(c) > final_results[i].final_score =>
                  Cardinality({e \in Range(ChunkIds(candidate_results)) :
                                    RerankPrecedes(e, c)}) >= 2 * top_k

\* more than top_k candidates, boosts applied, and a candidate of the pool was
\* left out in favour of one with a higher final_score
C5_Witness ==
    /\ RerankReturned
    /\ boost_fields # {}
    /\ top_k >= 1
    /\ Len(candidate_results) > top_k
    /\ \E c \in LeftOut : \E i \in 1..Len(final_results) :
          /\ FinalOf(c) < final_results[i].final_score
          /\ rerank_scores[c] > final_results[i].rerank_score

\* the part of a returned document's final_score that is neither its
\* rerank_score nor its citation or open-access boost
RecencyPart(d) ==
    d.final_score - d.rerank_score - CitationBoost(DocMetadata(d), boost_fields)
        - OpenAccessBoost(DocMetadata(d), boost_fields)

\* weight * normalized_year with the year clamped to the range 2000..2025
ClampedRecency(year) ==
    (BoostWeight.publication_year * 10000 * (Min(Max(year, 2000), 2025) - 2000)) \div 25

\* C25: the recency boost rerank_with_metadata adds is weight * normalized_year
\* with normalized_year within [0, 1]: a year below the range contributes 0, a
\* year above it contributes the weight, so the boost is never negative and
\* never exceeds the weight.  Checked under SpecRerank.
\* The code refutes it: year_score = (year - 2000) / 25 is not clamped.
C25_RecencyBoostClampedToRange ==
    (RerankReturned /\ "publication_year" \in boost_fields) =>
        \A i \in 1..Len(final_results) :
            LET d == final_results[i]
                year == Get(DocMetadata(d), "pub_year", Some(2000))[1]
            IN  /\ RecencyPart(d) >= 0
                /\ RecencyPart(d) <= BoostWeight.publication_year * 10000
                /\ RecencyPart(d) = ClampedRecency(year)

\* C29: rerank_with_metadata never fails because of a candidate's metadata:
\* when the scoring model answers, the call returns, and a candidate in which
\* citations_count, is_open_access or pub_year is absent or null gets no boost
\* from that field; with all three absent final_score equals rerank_score.
\* Checked under SpecRerank.
\* The code refutes it: metadata.get("pub_year", 2000) is None for a publication
\* without a year, and None - 2000 raises TypeError.
C29_MissingMetadataGivesNoBoost ==
    (pc = "rerank_done" /\ (scorer_up \/ candidate_results = <<>>)) =>
        /\ outcome = "returned"
        /\ boost_fields # {} =>
              \A i \in 1..Len(final_results) :
                 LET d == final_results[i]
                 IN  (DOMAIN DocMetadata(d) \cap {"citations_count", "is_open_access",
                                                  "pub_year"} = {})
                        => d.final_score = d.rerank_score

----------------------------------------------------------------------------
(* Claims about VectorSearcher, checked under SpecVector / SpecVectorPaths *)

\* chunks the brute-force scan must consider for the call's arguments: those of
\* the requested types whose cosine similarity reaches the threshold
Eligible ==
    {c \in Embedded :
        /\ TypeMatches(c, chunk_types)
        /\ CosineE2(query_vec, Embedding(c)) >= similarity_threshold}

\* the list is what an exact scan returns for the call's query, limit, type
\* filter and threshold
IsBruteForceResult(results) ==
    /\ Len(results) = Min(limit, Cardinality(Eligible))
    /\ \A i \in 1..Len(results) :
          /\ results[i].chunk_id \in Eligible
          /\ results[i].vector_score = CosineE2(query_vec, Embedding(results[i].chunk_id))
          /\ results[i].source = "vector"
    /\ \A i, j \in 1..Len(results) :
          i < j => /\ results[i].chunk_id # results[j].chunk_id
                   /\ results[i].vector_score >= results[j].vector_score
    /\ \A c \in Eligible :
          (\A i \in 1..Len(results) : results[i].chunk_id # c) =>
              \A i \in 1..Len(results) :
                  CosineE2(query_vec, Embedding(c)) <= results[i].vector_score

\* C8: when the pgvector query fails on the vector index (missing, malformed,
\* run-time error) while the embedding provider works, search does not raise
\* and returns the brute-force result for the same query, limit, type filter
\* and threshold.
C8_IndexFailureFallsBackToBruteForce ==
    (pc = "vs_done" /\ ann_status \in IndexFailures /\ embedder = "up") =>
        /\ outcome = "returned"
        /\ IsBruteForceResult(vector_results)

\* the index failed, the fallback ran under a positive threshold, and the limit
\* cut chunks that pass the threshold
C8_Witness ==
    /\ pc = "vs_done"
    /\ ann_status \in IndexFailures /\ embedder = "up"
    /\ fallback_entered /\ scanned
    /\ outcome = "returned"
    /\ Len(vector_results) >= 1
    /\ Cardinality(Eligible) > Len(vector_results)
    /\ similarity_threshold > 0

\* C9: when the embedding call itself fails, the brute-force fallback is not
\* entered (no full scan, no second embedding attempt) and the error is raised.
C9_EmbeddingFailureIsRaisedWithoutFallback ==
    (pc = "vs_done" /\ embedder \in {"down", "flaky"}) =>
        /\ ~fallback_entered
        /\ ~scanned
        /\ embed_calls = 1
        /\ outcome = "raised"

\* the similarities of the stored vectors the query can reach are pairwise distinct
DistinctSimilarities ==
    \A c, d \in Embedded :
        (c # d /\ TypeMatches(c, chunk_types) /\ TypeMatches(d, chunk_types)) =>
            CosineE2(query_vec, Embedding(c)) # CosineE2(query_vec, Embedding(d))

\* C10: on the same stored embeddings and arguments the brute-force path and the
\* pgvector path return the same chunk_ids in the same order whenever the
\* similarities are pairwise distinct.
C10_NumpyEqualsPgvector ==
    (pc = "paths_done" /\ DistinctSimilarities) =>
        ChunkIds(numpy_results) = ChunkIds(vector_results)

\* C23: in every execution of VectorSearcher.search that returns a result,
\* whichever path produced it, the embedding provider was called exactly once
\* for the query.  Checked under SpecVector.
\* The code refutes it: search_with_pgvector and _search_with_numpy each call
\* generate_embeddings, so a search that falls back has called it twice.
C23_EmbeddingInvokedOncePerSearch ==
    (pc = "vs_done" /\ outcome = "returned") => embed_calls = 1

\* C24: every candidate VectorSearcher.search returns, on either path and for
\* every similarity_threshold including 0, has vector_score >=
\* similarity_threshold; at most limit candidates are returned, in descending
\* similarity order.  Checked under SpecVector.
\* The code refutes it: search_with_pgvector adds the threshold to its WHERE
\* clause only "if similarity_threshold > 0", so at threshold 0 the ANN path
\* returns candidates of negative similarity.
C24_ReturnedCandidatesMeetThreshold ==
    (pc = "vs_done" /\ outcome = "returned") =>
        /\ Len(vector_results) <= limit
        /\ \A i \in 1..Len(vector_results) :
              vector_results[i].vector_score >= similarity_threshold
        /\ \A i \in 1..(Len(vector_results) - 1) :
              vector_results[i].vector_score >= vector_results[i + 1].vector_score

----------------------------------------------------------------------------
(* Claims about HybridSearchEngine, checked under Spec *)

\* the engine was constructed without a usable reranker: it was disabled by the
\* caller, or Reranker() raised in __init__
RerankerUnavailable ==
    /\ pc # "construct"
    /\ (~use_reranker_arg \/ ~reranker_built)

\* C6: when the reranker is disabled or its construction raised, search does
\* not fail at the rerank or citation stage: it returns the first
\* min(top_k, number of fused candidates) candidates of the fused list, in
\* fusion-score order, and no citation has a rerank score other than zero.
C6_NoRerankerReturnsFusionOrder ==
    RerankerUnavailable =>
        /\ failed_at \notin {"rerank", "cite"}
        /\ pc = "done" =>
             /\ outcome = "returned"
             /\ Len(citations) = Min(top_k, Len(candidate_results))
             /\ response.returned_results = Len(citations)
             /\ ChunkIds(citations) = ChunkIds(Take(fused_results, Len(citations)))
             /\ \A i, j \in 1..Len(citations) :
                   i < j => ~FracLess(citations[i].relevance_scores.rrf,
                                      citations[j].relevance_scores.rrf)
             /\ \A i \in 1..Len(citations) :
                   /\ "rerank_score" \notin DOMAIN final_results[i]
                   /\ citations[i].relevance_scores.rerank = 0

\* Reranker() raised in __init__, and a search returned top_k citations out of
\* a longer candidate list
C6_Witness ==
    /\ pc = "done"
    /\ use_reranker_arg /\ ~reranker_built
    /\ top_k > 0
    /\ Len(candidate_results) > top_k
    /\ Len(citations) = top_k

\* C7: when the reranker was constructed but the scoring call fails during a
\* query, search still completes and returns the fused, truncated list in
\* fusion order truncated to top_k.
C7_ScoringFailureReturnsFusionOrder ==
    (reranker_built /\ ~scorer_up /\ candidate_results # <<>>) =>
        /\ pc # "failed"
        /\ pc = "done" =>
             ChunkIds(citations) = ChunkIds(Take(candidate_results, top_k))

\* the steps search may take from one stage to the next
PipelineEdges ==
    {<<"construct", "idle">>, <<"idle", "bm25">>,
     <<"bm25", "vector">>, <<"bm25", "failed">>,
     <<"vector", "vector_fallback">>, <<"vector", "fuse">>,
     <<"vector_fallback", "fuse">>, <<"vector_fallback", "failed">>,
     <<"fuse", "rerank">>,
     <<"rerank", "cite">>, <<"rerank", "failed">>,
     <<"cite", "done">>}

\* C11: within one call of search the stages run in pipeline order: both
\* searchers have returned before fusion starts, fusion and truncation are done
\* before the rerank step (or its skip), citation formatting follows it, and a
\* request that returns has had its final results formatted.
C11_StagesRunInPipelineOrder ==
    [][/\ pc' # pc => <<pc, pc'>> \in PipelineEdges
       /\ pc' = "fuse" => Len(bm25_results') <= SearchLimit /\ embed_calls' >= 1
       /\ pc' = "rerank" =>
            /\ fused_results' = reciprocal_rank_fusion(<<bm25_results, vector_results>>,
                                                       RRF_K)
            /\ candidate_results' = Take(fused_results', CandidateBudget)
       /\ pc' = "cite" =>
            /\ pc = "rerank"
            /\ Len(final_results') <= Len(candidate_results)
       /\ pc' = "done" =>
            /\ outcome' = "returned"
            /\ ChunkIds(citations') = ChunkIds(Take(final_results, top_k))
            /\ response'.citations = citations']_vars

\* a search went through every stage, reranker included, and returned citations
C11_Witness ==
    /\ pc = "done"
    /\ use_reranker
    /\ bm25_results # <<>> /\ vector_results # <<>>
    /\ Len(citations) >= 2
    /\ "rerank_score" \in DOMAIN final_results[1]

\* the lexical call has been issued and has not returned
LexicalCallInFlight == pc = "bm25"

\* search has reached its call of the vector searcher
VectorCallIssued ==
    \/ pc \in {"vector", "vector_fallback", "fuse", "rerank", "cite", "done"}
    \/ failed_at \in {"vector", "rerank"}

\* C12: the lexical call and the vector call of one query are issued
\* concurrently: the vector call does not wait for the lexical result, so while
\* the lexical call is in flight the vector call has been issued too; fusion
\* starts only when both have completed.
C12_RetrievalCallsIssuedConcurrently ==
    /\ LexicalCallInFlight => VectorCallIssued
    /\ pc = "fuse" => ~LexicalCallInFlight /\ embed_calls >= 1

\* the vector searcher cannot answer: its database connection is down for the
\* pgvector query and for the scan alike
VectorSignalUnavailable == ann_status = "db_down"

\* C13: search fails only on an unrecoverable error, an embedding failure or
\* both signals being unavailable; when only the lexical searcher raises, or
\* only the vector searcher, search returns a degraded result instead.
C13_SingleSignalFailureDegrades ==
    (pc = "failed" /\ failed_at \in {"bm25", "vector"}) =>
        \/ embedder # "up"
        \/ (failed_at = "bm25" /\ VectorSignalUnavailable)

\* both searchers have returned, and neither found a candidate
BothSearchersReturnedNothing ==
    /\ \/ pc \in {"fuse", "rerank", "cite", "done"}
       \/ pc = "failed" /\ failed_at \notin {"bm25", "vector"}
    /\ bm25_results = <<>>
    /\ vector_results = <<>>

\* C14: when both searchers return no candidates, search raises nothing and
\* returns an empty citations list with total_results = 0 and
\* returned_results = 0, whether the reranker is enabled or not and whether a
\* score breakdown is asked for or not.
C14_NoCandidatesReturnsEmptyResponse ==
    BothSearchersReturnedNothing =>
        /\ pc # "failed"
        /\ pc = "done" =>
             /\ outcome = "returned"
             /\ citations = <<>>
             /\ response.citations = <<>>
             /\ response.total_results = 0
             /\ response.returned_results = 0
             /\ response.score_breakdown \in
                    {NoneVal, Some([lists |-> <<>>, statistics_of |-> {}])}

\* nothing was found, the reranker is enabled although its model cannot score,
\* and the response with a score breakdown was returned
C14_Witness ==
    /\ pc = "done"
    /\ BothSearchersReturnedNothing
    /\ use_reranker /\ ~scorer_up
    /\ top_k > 0
    /\ response.score_breakdown # NoneVal

\* C27: for every call of search with top_k >= 0 that returns, with the
\* reranker enabled or not, the number of citations equals returned_results,
\* is at most top_k, at most the candidate budget (80) and at most
\* total_results, and the citations carry citation_id 1..n in the order of
\* the final results.  Checked under Spec.
C27_CitationCountWithinBudgetAndTopK ==
    (pc = "done" /\ outcome = "returned" /\ top_k >= 0) =>
        LET n == Len(response.citations)
        IN  /\ n = response.returned_results
            /\ n <= top_k
            /\ n <= CandidateBudget
            /\ n <= response.total_results
            /\ n = Len(final_results)
            /\ \A i \in 1..n :
                  /\ response.citations[i].citation_id = i
                  /\ response.citations[i].chunk_id = final_results[i].chunk_id

\* a call asking for more results than the candidate budget, over a corpus
\* whose fusion yields more than the budget: 80 citations, numbered 1..80
C27_Witness ==
    /\ pc = "done"
    /\ outcome = "returned"
    /\ top_k > CandidateBudget
    /\ response.total_results > CandidateBudget
    /\ Len(response.citations) = CandidateBudget
    /\ response.citations[CandidateBudget].citation_id = CandidateBudget

----------------------------------------------------------------------------
(* Claims about queries without usable tokens and about the text index,      *)
(* checked under SpecQuery                                                   *)

\* the query reduces to zero usable tokens: _build_tsquery keeps no term
NoUsableTokens == CleanedTerms(query) = <<>>

\* C18: a search whose query has no usable token after cleaning (with the text
\* index built) does not raise, both searchers return an empty list and the
\* response has an empty citation list.
\* The code refutes it: the lexical searcher returns nothing, but
\* VectorSearcher.search embeds the raw query text and returns its nearest
\* chunks, which are fused and cited.
C18_NoUsableTokensGivesEmptyResults ==
    (pc = "done" /\ text_index = "built" /\ NoUsableTokens)
        => /\ outcome = "returned"
           /\ bm25_results = <<>>
           /\ vector_results = <<>>
           /\ citations = <<>>

\* C19: when the text index has not been built, BM25Searcher.search returns an
\* empty list and does not raise.
\* The code refutes it: the statement that reads content_tsv is executed
\* without a try/except, so its error leaves search.
C19_MissingTextIndexReturnsEmptyList ==
    (text_index = "missing" /\ pc \notin {"q_idle", "q_bm25"})
        => /\ failed_at # "bm25"
           /\ bm25_results = <<>>
           /\ pc # "failed"

----------------------------------------------------------------------------
(* Claims about CitationFormatter, checked under SpecCitation                *)

\* the literal text that follows author_str in each style's citation string
AuthorStrEnd(style) ==
    CASE style = "apa" -> " ("
      [] style = "ieee" -> ", \""
      [] style = "mla" -> ". \""

\* the author summary of a formatted citation string: what precedes that text
AuthorSummary(str, style) ==
    LET end == CHOOSE i \in 1..Len(str) :
                    /\ str[i] = AuthorStrEnd(style)
                    /\ \A j \in 1..(i - 1) : str[j] # AuthorStrEnd(style)
    IN  SubSeq(str, 1, end - 1)

\* the spec's rule: the full name, "A & B", or "A et al." for three or more
TruncationRule(authors) ==
    IF Len(authors) = 1 THEN <<authors[1]>>
    ELSE IF Len(authors) = 2 THEN <<authors[1], " & ", authors[2]>>
    ELSE <<authors[1], " et al.">>

\* C16: in every supported style (apa, ieee, mla) the author summary of a
\* publication's formatted citation string is the full name for one author,
\* "A & B" for two and "A et al." for three or more.
\* The code refutes it: only the apa branch does so; the ieee branch writes
\* "A et al." for two authors and the mla branch writes the first author alone
\* for any number of authors.
C16_AuthorSummarySameInEveryStyle ==
    (pc = "fmt_done" /\ citation_style \in {"apa", "ieee", "mla"} /\ pub_authors # <<>>)
        => \A idx \in DOMAIN formatted :
                formatted[idx] # NoneVal
                    => AuthorSummary(formatted[idx][1], citation_style)
                            = TruncationRule(pub_authors)

PublicationTypes == {"publication_title", "publication_abstract", "publication_keywords"}
PersonTypes == {"person_basic", "person_biography"}

----------------------------------------------------------------------------
(* Claims about two search calls on one engine                               *)

SearchAlone ==
    IF TextStatementFails(text_index, "clean") THEN [outcome |-> "raised", citations |-> <<>>]
    ELSE IF ann_status = "ok"
    THEN FinishSearch(bm25_rows(tsquery, lexical_hits, chunk_types, limit),
                      search_with_pgvector(query_vec, limit, chunk_types,
                                           similarity_threshold, row_order))
    ELSE IF ann_status = "db_down" THEN [outcome |-> "raised", citations |-> <<>>]
    ELSE FinishSearch(bm25_rows(tsquery, lexical_hits, chunk_types, limit),
                      search_with_numpy(query_vec, limit, chunk_types,
                                        similarity_threshold, row_order))

\* C20: when two search calls interleave on one engine, each call's result is
\* the result the call gives when it runs alone.  Checked under SpecInterleaved.
\* The code refutes it: the engine's searchers share one session, so the
\* pgvector statement that fails in one call aborts the transaction the other
\* call's statements run in, and one call's rollback acts on the other's.
C20_InterleavedCallsDoNotInterfere ==
    \A r \in Requests : Ended(r) => ResultOf(r) = SearchAlone

----------------------------------------------------------------------------
(* Claims about the convenience variants, checked under SpecVariants         *)

\* what search(query, top_k, chunk_types=types) returns on the engine's data
SearchRestrictedTo(types) ==
    FinishSearch(bm25_rows(build_tsquery(query), lexical_hits, types, SearchLimit),
                 IF ann_status = "ok"
                 THEN search_with_pgvector(query_vec, SearchLimit, types, 0, row_order)
                 ELSE search_with_numpy(query_vec, SearchLimit, types, 0, row_order))

\* C21: search_publications_only(q, k) returns what search(q, k) returns when
\* restricted to publication_title, publication_abstract and
\* publication_keywords, and search_researchers_only(q, k) what search returns
\* when restricted to person_basic and person_biography.
\* The code refutes it: search_publications_only passes only
\* publication_abstract and publication_title, so keyword chunks are left out.
C21_VariantsEqualSearchRestrictedToKind ==
    outcome = "returned" =>
        /\ entry_point = "search_publications_only" =>
                citations = SearchRestrictedTo(PublicationTypes).citations
        /\ entry_point = "search_researchers_only" =>
                citations = SearchRestrictedTo(PersonTypes).citations

----------------------------------------------------------------------------
(* Claims about EmbeddingGenerator._generate_openai, checked under           *)
(* SpecGenerateLive                                                          *)

GenerateEnded == pc = "gen_done"

\* C30: _generate_openai terminates after at most max_retries (3) calls of the
\* embedding API: it returns the embeddings of the first successful attempt
\* without further calls, it raises if and only if all 3 attempts failed, it
\* never returns None and never retries after a success.
C30_GenerateEndsWithinMaxRetries ==
    /\ <>GenerateEnded
    /\ [](api_calls <= 3)
    /\ [](GenerateEnded =>
            /\ outcome \in {"returned", "raised"}
            /\ outcome = "raised" <=> (Len(api_errors) = 3 /\ api_calls = 3)
            /\ outcome = "returned" =>
                  /\ embeddings = Some(ResponseEmbeddings(texts))
                  /\ api_calls = Len(api_errors) + 1)
    /\ [][embeddings # NoneVal => api_calls' = api_calls]_vars

\* the third attempt succeeded after a rate limit and a timeout, for a batch
\* of two texts
C30_Witness ==
    /\ GenerateEnded
    /\ outcome = "returned"
    /\ api_errors = <<"rate_limit", "timeout">>
    /\ api_calls = 3
    /\ Len(texts) = 2
    /\ embeddings = Some(ResponseEmbeddings(texts))

====
